---- MODULE Spec2Model ----
(***************************************************************************)
(* LeMMing: the deterministic scheduler (lemming/engine.py) and the        *)
(* file-backed outbox store (lemming/messages.py), with the credit ledger  *)
(* (lemming/org.py) the scheduler consults.                                *)
(*                                                                         *)
(* Four specifications share the variables:                               *)
(*   SchedSpec  should_run / compute_fire_point / get_firing_agents as     *)
(*              pure functions of an agent list and a tick;                *)
(*   StoreSpec  the outbox store: writes, single and merged reads, the     *)
(*              mtime-keyed listing cache;                                 *)
(*   RetentionSpec  the outbox store: writes and retention cleanup;        *)
(*   Spec       the engine: run_once / run_forever / run_tick / run_agent. *)
(***************************************************************************)
EXTENDS Integers, Sequences, FiniteSets, TLC

VARIABLES
    agents,        \* list[Agent] as discover_agents returns it (order of os.walk)
    cur_tick,      \* the tick argument of the running run_tick / get_firing_agents
    firing,        \* firing_agents of the running run_tick (a list of Agent)
    pos,           \* index into firing of the next agent to run
    pc,            \* "idle" | "agents" | "sleep" : position of the engine process
    driver,        \* "none" | "once" | "forever" : which entry point is running
    tick_arg,      \* run_once's tick parameter: [given, value]
    outcome,       \* the last run_tick: "none" | "running" | "ok" | one of FailedOutcomes
    results,       \* run_tick's results dict: agent name -> what run_agent returned
    tick_file,     \* lemming/config/tick.json
    credits,       \* org._credits_cache / credits.json: name -> record
    memory,        \* agents/<name>/memory: name -> set of <<key, value>>
    outbox,        \* agents/<name>/outbox: name -> set of entry files
    dir_mtime,     \* st_mtime of each outbox directory
    files_cache,   \* messages._outbox_files_cache
    now,           \* wall clock, as datetime.now(UTC) orders it
    llm_calls,     \* call_llm invocations made by the running run_tick
    tool_execs,    \* tool.execute invocations made by the running run_tick
    cleanup_log,   \* the last cleanup_old_outbox_entries call run_tick made
    config,        \* lemming/config/org_config.json as get_org_config caches it
    last           \* the last store operation and what it returned

vars == <<agents, cur_tick, firing, pos, pc, driver, tick_arg, outcome, results,
          tick_file, credits, memory, outbox, dir_mtime, files_cache, now,
          llm_calls, tool_execs, cleanup_log, config, last>>

engineVars == <<pos, pc, driver, tick_arg, outcome, results, tick_file, credits,
                memory, llm_calls, tool_execs, cleanup_log, config>>

storeVars == <<outbox, dir_mtime, files_cache, now, last>>

schedVars == <<agents, cur_tick, firing>>

-----------------------------------------------------------------------------
(* Bounds of the model *)

MaxAgents == 2      \* agents in a SchedSpec input list
MaxN == 3           \* largest run_every_n_ticks drawn
MaxNegN == 2        \* the negative run_every_n_ticks drawn is -MaxNegN
MaxOffset == 1      \* largest phase_offset drawn (the smallest is -1)
MaxSchedTick == 2   \* ticks 0..MaxSchedTick are tried in SchedSpec
NumDirs == 2        \* agent directories under agents/
MaxEntries == 2     \* entry files in all outboxes together (StoreSpec)
MaxStoreTick == 1   \* entry ticks 0..MaxStoreTick are written in StoreSpec
MaxId == 2          \* entry ids 1..MaxId
MaxNow == 2         \* the wall clock runs from 1 to MaxNow
MaxLimit == 2       \* read limits 0..MaxLimit
MaxAge == 1         \* max_age_ticks 0..MaxAge are tried in RetentionSpec

-----------------------------------------------------------------------------
(* Python arithmetic and ordering helpers *)

\* Python's a % b: the result has the sign of the divisor b (b # 0).
PyMod(a, b) == IF b > 0 THEN a % b ELSE -((-a) % (-b))

\* Agent names, ascending in Python's string order.
AgentNames == <<"alpha", "bravo", "charlie", "zulu">>

\* Position of a name in string order: s < t in Python iff NameRank(s) < NameRank(t).
NameRank(s) == CHOOSE i \in 1..Len(AgentNames) : AgentNames[i] = s

Min(a, b) == IF a < b THEN a ELSE b

SeqToSet(s) == {s[i] : i \in 1..Len(s)}

-----------------------------------------------------------------------------
(* Agent descriptors (lemming/agents.py) *)

\* AgentPermissions.send_outboxes as run_agent reads it. AgentPermissions
\* declares read_outboxes and tools only, so an agent built by
\* Agent.from_resume_data has no such attribute (defined = FALSE).
SendMissing == [defined |-> FALSE, is_none |-> FALSE, list |-> <<>>]
SendNone == [defined |-> TRUE, is_none |-> TRUE, list |-> <<>>]
SendList(l) == [defined |-> TRUE, is_none |-> FALSE, list |-> l]

Agent(name, n, offset, send, tools, reads) ==
    [name |-> name, run_every_n_ticks |-> n, phase_offset |-> offset,
     send_outboxes |-> send, tools |-> tools, read_outboxes |-> reads]

-----------------------------------------------------------------------------
(* Scheduler: firing predicate and intra-tick order (lemming/engine.py) *)

\* n = agent.schedule.run_every_n_ticks or 1
EveryN(agent) == IF agent.run_every_n_ticks = 0 THEN 1 ELSE agent.run_every_n_ticks

\* The variant reduces the sum modulo 2n instead of n.
should_runDoublePeriod(agent, tick) ==
    LET n == EveryN(agent)
        offset == agent.phase_offset
    IN PyMod(tick + PyMod(offset, n), 2 * n) = 0

should_run(agent, tick) ==
    LET n == EveryN(agent)
        offset == agent.phase_offset
    IN PyMod(tick + PyMod(offset, n), n) = 0

\* The variant divides the reduced offset itself, without negating it.
compute_fire_pointNoNegate(agent) ==
    LET n == EveryN(agent)
    IN IF n = 1
       THEN [num |-> 0, den |-> 1]
       ELSE LET offset == PyMod(agent.phase_offset, n)
            IN [num |-> offset, den |-> n]

\* compute_fire_point returns the float ((-offset) % n) / n; it is kept as the
\* exact fraction num/den. Float division is correctly rounded, so for the
\* small operands here two quotients compare as their fractions do.
compute_fire_point(agent) ==
    LET n == EveryN(agent)
    IN IF n = 1
       THEN [num |-> 0, den |-> 1]
       ELSE LET offset == PyMod(agent.phase_offset, n)
            IN [num |-> PyMod(-offset, n), den |-> n]

\* p < q and p = q on the fractions (a negative den flips the sign of both).
FpSign(p) == IF p.den < 0 THEN -1 ELSE 1
FpLess(p, q) == (p.num * FpSign(p)) * (q.den * FpSign(q)) < (q.num * FpSign(q)) * (p.den * FpSign(p))
FpEq(p, q) == p.num * q.den = q.num * p.den

\* The sort key of get_firing_agents: (compute_fire_point(a), a.name), compared
\* as Python compares tuples. The variant keeps the fire point only.
FiringKeyLessNoName(a, b) == FpLess(compute_fire_point(a), compute_fire_point(b))

FiringKeyLess(a, b) ==
    \/ FpLess(compute_fire_point(a), compute_fire_point(b))
    \/ /\ FpEq(compute_fire_point(a), compute_fire_point(b))
       /\ NameRank(a.name) < NameRank(b.name)

\* list.sort is stable: an element is inserted after every element that does
\* not compare greater than it.
RECURSIVE InsertFiring(_, _)
InsertFiring(sorted, a) ==
    IF sorted = <<>> THEN <<a>>
    ELSE IF FiringKeyLess(a, Head(sorted))
         THEN <<a>> \o sorted
         ELSE <<Head(sorted)>> \o InsertFiring(Tail(sorted), a)

RECURSIVE SortFiring(_)
SortFiring(s) ==
    IF s = <<>> THEN <<>>
    ELSE InsertFiring(SortFiring(SubSeq(s, 1, Len(s) - 1)), s[Len(s)])

get_firing_agents(agent_list, tick) ==
    SortFiring(SelectSeq(agent_list, LAMBDA a : should_run(a, tick)))

-----------------------------------------------------------------------------
(* Outbox entries and their file names (lemming/messages.py) *)

\* Strings are sequences of character codes; Python compares them code by code.
CharZero == 48
CharMinus == 45
CharUnderscore == 95

RECURSIVE StrLess(_, _)
StrLess(s, t) ==
    IF t = <<>> THEN FALSE
    ELSE IF s = <<>> THEN TRUE
    ELSE IF s[1] # t[1] THEN s[1] < t[1]
    ELSE StrLess(Tail(s), Tail(t))

\* The decimal digits of n >= 0.
RECURSIVE Digits(_)
Digits(n) == IF n < 10 THEN <<CharZero + n>> ELSE Digits(n \div 10) \o <<CharZero + (n % 10)>>

ZeroPad(s, w) == IF Len(s) >= w THEN s ELSE [i \in 1..(w - Len(s)) |-> CharZero] \o s

\* "{tick:08d}": at least TickPadWidth characters, the sign included.
TickPadWidth == 8
FormatTick(t) ==
    IF t >= 0 THEN ZeroPad(Digits(t), TickPadWidth)
    ELSE <<CharMinus>> \o ZeroPad(Digits(-t), TickPadWidth - 1)

\* uuid4().hex is a fixed-width lower-case hex string; an id k stands for the
\* k-th such string in ascending order, written as one hex digit.
HexChar(k) == IF k < 10 THEN CharZero + k ELSE 87 + k

\* OUTBOX_FILENAME_TEMPLATE without its constant ".json" suffix.
outbox_filename(entry) == FormatTick(entry.tick) \o <<CharUnderscore>> \o <<HexChar(entry.id)>>

IsDigit(c) == c >= CharZero /\ c <= CharZero + 9

RECURSIVE DigitsValue(_, _)
DigitsValue(s, acc) ==
    IF s = <<>> THEN acc ELSE DigitsValue(Tail(s), 10 * acc + (s[1] - CharZero))

\* filename.partition("_")[0]
RECURSIVE BeforeUnderscore(_)
BeforeUnderscore(s) ==
    IF s = <<>> \/ s[1] = CharUnderscore THEN <<>>
    ELSE <<s[1]>> \o BeforeUnderscore(Tail(s))

\* int(tick_part), -1 when it raises ValueError.
_tick_from_filename_str(name) ==
    LET part == BeforeUnderscore(name)
        body == IF part # <<>> /\ part[1] = CharMinus THEN Tail(part) ELSE part
    IN IF body = <<>> \/ \E i \in 1..Len(body) : ~IsDigit(body[i])
       THEN -1
       ELSE IF part[1] = CharMinus THEN -DigitsValue(body, 0) ELSE DigitsValue(body, 0)

\* recipients: list[str] | None
RecipNone == [is_none |-> TRUE, list |-> <<>>]
RecipList(l) == [is_none |-> FALSE, list |-> l]

\* OutboxEntry.create: id from uuid4, created_at from the wall clock.
OutboxEntry(agent, tick, id, created_at, recipients) ==
    [id |-> id, tick |-> tick, agent |-> agent, created_at |-> created_at,
     recipients |-> recipients]

\* A file of an outbox directory: its name without the extension, json when
\* the extension is ".json", valid when _load_entry can build an entry from
\* its content, and that entry.
EntryFile(entry) ==
    [name |-> outbox_filename(entry), json |-> TRUE, valid |-> TRUE, entry |-> entry]

\* A file that write_outbox_entry did not write: json.load or
\* OutboxEntry.from_dict raises on its content.
NonEntryFile(name, json) ==
    [name |-> name, json |-> json, valid |-> FALSE,
     entry |-> OutboxEntry("", 0, 0, 0, RecipNone)]

\* The names that pass entry.is_file() and entry.name.endswith(".json").
NamesOf(dir) == {f.name : f \in {g \in dir : g.json}}

\* heapq.nlargest / sorted(reverse=True) over the distinct names of a directory.
RECURSIVE SortNamesDesc(_)
SortNamesDesc(names) ==
    IF names = {} THEN <<>>
    ELSE LET m == CHOOSE x \in names : \A y \in names \ {x} : StrLess(y, x)
         IN <<m>> \o SortNamesDesc(names \ {m})

Take(s, n) == SubSeq(s, 1, Min(Len(s), n))

\* since_tick: int | None
SinceNone == [given |-> FALSE, value |-> 0]
Since(t) == [given |-> TRUE, value |-> t]

\* _load_entry(path): the entry of the file at that path, or None (loaded = FALSE)
\* when opening it raises.
NoEntry == [loaded |-> FALSE]
_load_entry(dir, name) ==
    IF \E f \in dir : f.json /\ f.valid /\ f.name = name
    THEN [loaded |-> TRUE, entry |-> (CHOOSE f \in dir : f.json /\ f.name = name).entry]
    ELSE NoEntry

\* The key of entries.sort(key=lambda e: (e.tick, e.created_at), reverse=True):
\* TRUE when e sorts strictly before f.
EntryBefore(e, f) ==
    \/ e.tick > f.tick
    \/ e.tick = f.tick /\ e.created_at > f.created_at

\* list.sort(reverse=True) is stable: equal keys keep their order.
RECURSIVE InsertEntry(_, _)
InsertEntry(sorted, e) ==
    IF sorted = <<>> THEN <<e>>
    ELSE IF EntryBefore(e, Head(sorted))
         THEN <<e>> \o sorted
         ELSE <<Head(sorted)>> \o InsertEntry(Tail(sorted), e)

RECURSIVE SortEntries(_)
SortEntries(s) ==
    IF s = <<>> THEN <<>>
    ELSE InsertEntry(SortEntries(SubSeq(s, 1, Len(s) - 1)), s[Len(s)])

-----------------------------------------------------------------------------
(* Outbox store operations (lemming/messages.py) *)

\* A directory that does not exist has mtime NoDir (stat raises FileNotFoundError).
NoDir == 0

\* write_outbox_entry: open(path, "w") creates the file, or truncates the file of
\* that name; the directory is made when it is missing. Creating a file sets the
\* directory's mtime to the clock; rewriting an existing file leaves it.
DirAfterWrite(dir, entry) ==
    {f \in dir : ~(f.json /\ f.name = outbox_filename(entry))} \cup {EntryFile(entry)}

MtimeAfterWrite(dir, mtime, entry, clock) ==
    IF mtime # NoDir /\ outbox_filename(entry) \in NamesOf(dir) THEN mtime ELSE clock

\* read_outbox_entries, the loop over filenames: entries collected so far and
\* min_collected_tick (inf = TRUE for float("inf")).
RECURSIVE ReadLoop(_, _, _, _, _, _)
ReadLoop(dir, names, limit, since_tick, entries, min_tick) ==
    IF names = <<>> THEN entries
    ELSE LET name == Head(names)
             tick_val_int == _tick_from_filename_str(name)
             has_tick == tick_val_int # -1
             loaded == _load_entry(dir, name)
         IN IF since_tick.given /\ has_tick /\ tick_val_int < since_tick.value
            THEN entries
            ELSE IF Len(entries) >= limit /\ has_tick
                    /\ (min_tick.inf \/ min_tick.value > tick_val_int)
            THEN entries
            ELSE IF ~loaded.loaded
            THEN ReadLoop(dir, Tail(names), limit, since_tick, entries, min_tick)
            ELSE IF since_tick.given /\ loaded.entry.tick < since_tick.value
            THEN ReadLoop(dir, Tail(names), limit, since_tick, entries, min_tick)
            ELSE ReadLoop(dir, Tail(names), limit, since_tick,
                          Append(entries, loaded.entry),
                          IF min_tick.inf \/ loaded.entry.tick < min_tick.value
                          THEN [inf |-> FALSE, value |-> loaded.entry.tick]
                          ELSE min_tick)

\* The candidate file names of read_outbox_entries: every *.json file, and with
\* since_tick those whose name parses to a tick >= since_tick.
ReadCandidates(dir, since_tick) ==
    {n \in NamesOf(dir) : since_tick.given => _tick_from_filename_str(n) >= since_tick.value}

read_outbox_entries(dir, mtime, limit, since_tick) ==
    IF limit <= 0 \/ mtime = NoDir THEN <<>>
    ELSE LET filenames == Take(SortNamesDesc(ReadCandidates(dir, since_tick)), limit)
         IN Take(SortEntries(ReadLoop(dir, filenames, limit, since_tick, <<>>,
                                      [inf |-> TRUE, value |-> 0])), limit)

\* _outbox_files_cache: per directory, valid = FALSE when it has no record.
NoCache == [valid |-> FALSE, mtime |-> 0, filenames |-> <<>>]
CacheMaxDirs == 1000

\* The scan of _scan_outbox_files_optimized on a cache miss: *.json files whose
\* name starts with a digit, sorted by name descending.
ScanDir(dir) == SortNamesDesc({n \in NamesOf(dir) : IsDigit(n[1])})

\* The file names _scan_outbox_files_optimized works from: the cached list when
\* the cached mtime equals the directory's, else a fresh scan.
ListingUsed(dir, mtime, cached) ==
    IF cached.valid /\ cached.mtime = mtime THEN cached.filenames ELSE ScanDir(dir)

\* The cache after _scan_outbox_files_optimized ran for one existing directory.
CacheAfterScan(cache, agent_name, dir, mtime) ==
    IF cache[agent_name].valid /\ cache[agent_name].mtime = mtime THEN cache
    ELSE LET kept == IF Cardinality({a \in DOMAIN cache : cache[a].valid}) > CacheMaxDirs
                     THEN [a \in DOMAIN cache |-> NoCache] ELSE cache
         IN [kept EXCEPT ![agent_name] =
                 [valid |-> TRUE, mtime |-> mtime, filenames |-> ScanDir(dir)]]

\* The filter loop of _scan_outbox_files_optimized: (tick, name, path) triples;
\* the path is the directory of agent_name joined with the name.
RECURSIVE ScanLoop(_, _, _, _, _)
ScanLoop(agent_name, names, since_tick, limit, acc) ==
    IF names = <<>> THEN acc
    ELSE LET name == Head(names)
             tick == _tick_from_filename_str(name)
         IN IF tick = -1
            THEN ScanLoop(agent_name, Tail(names), since_tick, limit, acc)
            ELSE IF since_tick.given /\ tick < since_tick.value
            THEN acc
            ELSE LET acc2 == Append(acc, [tick |-> tick, name |-> name, agent |-> agent_name])
                 IN IF limit > 0 /\ Len(acc2) >= limit
                    THEN acc2
                    ELSE ScanLoop(agent_name, Tail(names), since_tick, limit, acc2)

_scan_outbox_files_optimized(agent_name, dir, mtime, cached, since_tick, limit) ==
    IF mtime = NoDir THEN <<>>
    ELSE ScanLoop(agent_name, ListingUsed(dir, mtime, cached), since_tick, limit, <<>>)

\* Python's tuple order on (tick, filename, full_path); two paths with the same
\* file name differ in the agent directory only.
TripleLess(x, y) ==
    \/ x.tick < y.tick
    \/ x.tick = y.tick /\ StrLess(x.name, y.name)
    \/ x.tick = y.tick /\ x.name = y.name /\ NameRank(x.agent) < NameRank(y.agent)

\* heapq.merge(*iterables, reverse=True): the largest head is taken next, the
\* earlier iterable on equal heads.
RECURSIVE HeapMerge(_)
HeapMerge(streams) ==
    LET live == {i \in 1..Len(streams) : streams[i] # <<>>}
    IN IF live = {} THEN <<>>
       ELSE LET i == CHOOSE k \in live :
                        \A j \in live \ {k} :
                            \/ TripleLess(Head(streams[j]), Head(streams[k]))
                            \/ ~TripleLess(Head(streams[k]), Head(streams[j])) /\ k < j
            IN <<Head(streams[i])>> \o HeapMerge([streams EXCEPT ![i] = Tail(streams[i])])

\* The cache after the scans of agent_names[1..k], in that order.
RECURSIVE CacheAfterScans(_, _, _, _, _)
CacheAfterScans(cache, dirs, mtimes, agent_names, k) ==
    IF k = 0 THEN cache
    ELSE LET before == CacheAfterScans(cache, dirs, mtimes, agent_names, k - 1)
             a == agent_names[k]
         IN IF mtimes[a] = NoDir THEN before
            ELSE CacheAfterScan(before, a, dirs[a], mtimes[a])

\* Step 4 of read_multi_agent_outbox_entries: load the chosen paths, skipping
\* the ones _load_entry returns None for.
RECURSIVE LoadAll(_, _)
LoadAll(dirs, to_load) ==
    IF to_load = <<>> THEN <<>>
    ELSE LET loaded == _load_entry(dirs[Head(to_load).agent], Head(to_load).name)
         IN (IF loaded.loaded THEN <<loaded.entry>> ELSE <<>>) \o LoadAll(dirs, Tail(to_load))

read_multi_agent_outbox_entries(dirs, mtimes, cache, agent_names, limit, since_tick) ==
    IF limit <= 0 THEN <<>>
    ELSE LET iterables ==
                 [k \in 1..Len(agent_names) |->
                     _scan_outbox_files_optimized(
                         agent_names[k], dirs[agent_names[k]], mtimes[agent_names[k]],
                         CacheAfterScans(cache, dirs, mtimes, agent_names, k - 1)[agent_names[k]],
                         since_tick, limit)]
             to_load == Take(HeapMerge(iterables), limit)
         IN SortEntries(LoadAll(dirs, to_load))

\* The cache read_multi_agent_outbox_entries leaves behind.
CacheAfterReadMulti(dirs, mtimes, cache, agent_names, limit) ==
    IF limit <= 0 THEN cache
    ELSE CacheAfterScans(cache, dirs, mtimes, agent_names, Len(agent_names))

\* cleanup_old_outbox_entries, one outbox directory: the files it unlinks.
\* A variant uses >= where the code compares with >.
ExpiredInclusive(dir, current_tick, max_age_ticks) ==
    {f \in dir : /\ f.json
                 /\ _tick_from_filename_str(f.name) # -1
                 /\ current_tick - _tick_from_filename_str(f.name) >= max_age_ticks}

Expired(dir, current_tick, max_age_ticks) ==
    {f \in dir : /\ f.json
                 /\ _tick_from_filename_str(f.name) # -1
                 /\ current_tick - _tick_from_filename_str(f.name) > max_age_ticks}

\* The directories after cleanup_old_outbox_entries, their mtimes (unlinking a
\* file sets the directory's mtime to the clock), and the count it returns.
\* A variant that unlinks at most one file of each directory per call.
DirsAfterCleanupOneFile(dirs, current_tick, max_age_ticks) ==
    [a \in DOMAIN dirs |->
        IF Expired(dirs[a], current_tick, max_age_ticks) = {} THEN dirs[a]
        ELSE dirs[a] \ {CHOOSE f \in Expired(dirs[a], current_tick, max_age_ticks) : TRUE}]

DirsAfterCleanup(dirs, current_tick, max_age_ticks) ==
    [a \in DOMAIN dirs |-> dirs[a] \ Expired(dirs[a], current_tick, max_age_ticks)]

MtimesAfterCleanup(dirs, mtimes, current_tick, max_age_ticks, clock) ==
    [a \in DOMAIN dirs |->
        IF Expired(dirs[a], current_tick, max_age_ticks) # {} THEN clock ELSE mtimes[a]]

RECURSIVE SumOver(_, _)
SumOver(f, S) ==
    IF S = {} THEN 0
    ELSE LET x == CHOOSE y \in S : TRUE IN f[x] + SumOver(f, S \ {x})

cleanup_old_outbox_entries(dirs, current_tick, max_age_ticks) ==
    SumOver([a \in DOMAIN dirs |-> Cardinality(Expired(dirs[a], current_tick, max_age_ticks))],
            DOMAIN dirs)

-----------------------------------------------------------------------------
(* StoreSpec: the outbox store under writes, reads and cleanup *)

\* The agent directories agents/<name>.
Dirs == {AgentNames[i] : i \in 1..Min(NumDirs, Len(AgentNames))}

TotalEntries(dirs) == SumOver([a \in DOMAIN dirs |-> Cardinality(dirs[a])], DOMAIN dirs)

StoreEmpty ==
    /\ outbox = [a \in Dirs |-> {}]
    /\ dir_mtime = [a \in Dirs |-> NoDir]
    /\ files_cache = [a \in Dirs |-> NoCache]
    /\ now = 1

\* A record of credits.json; present = FALSE when the agent has none.
NoCreditRecord == [present |-> FALSE, credits_left |-> 0, cost_per_action |-> 1]
CreditRecord(left) == [present |-> TRUE, credits_left |-> left, cost_per_action |-> 1]

\* config.get("max_outbox_age_ticks", 100) and config.get("max_turns").
DefaultMaxOutboxAge == 100
NoMaxTurns == [given |-> FALSE, value |-> 0]
MaxTurns(n) == [given |-> TRUE, value |-> n]

EngineIdle ==
    /\ pos = 1
    /\ pc = "idle"
    /\ driver = "none"
    /\ tick_arg = [given |-> FALSE, value |-> 0]
    /\ outcome = "none"
    /\ results = <<>>
    /\ llm_calls = 0
    /\ tool_execs = 0
    /\ cleanup_log = [called |-> FALSE, tick |-> 0, removed |-> 0]

StoreInit ==
    /\ StoreEmpty
    /\ EngineIdle
    /\ agents = <<>>
    /\ cur_tick = 0
    /\ firing = <<>>
    /\ tick_file = [state |-> "absent", current_tick |-> 0]
    /\ credits = [a \in Dirs |-> NoCreditRecord]
    /\ config = [max_outbox_age_ticks |-> DefaultMaxOutboxAge, max_turns |-> NoMaxTurns]
    /\ memory = [a \in Dirs |-> {}]
    /\ last = [op |-> "none"]

\* The wall clock moves on.
StoreAdvance ==
    /\ now < MaxNow
    /\ now' = now + 1
    /\ last' = [op |-> "advance"]
    /\ UNCHANGED <<outbox, dir_mtime, files_cache>>

\* write_outbox_entry(base, a, OutboxEntry.create(a, t, ...)); uuid4 gives an id
\* no entry has yet.
\* uuid4: ids no entry of the store carries, least first.
UsedIds(dirs) == {f.entry.id : f \in {g \in UNION {dirs[b] : b \in DOMAIN dirs} : g.valid}}

RECURSIVE FreshFrom(_, _, _)
FreshFrom(used, i, n) ==
    IF n = 0 THEN <<>>
    ELSE IF i \in used THEN FreshFrom(used, i + 1, n)
    ELSE <<i>> \o FreshFrom(used, i + 1, n - 1)

FreshIds(dirs, n) == FreshFrom(UsedIds(dirs), 1, n)

StoreWrite(a, t, id) ==
    LET entry == OutboxEntry(a, t, id, now, RecipNone)
    IN /\ TotalEntries(outbox) < MaxEntries
       /\ id \notin UsedIds(outbox)
       /\ outbox' = [outbox EXCEPT ![a] = DirAfterWrite(outbox[a], entry)]
       /\ dir_mtime' = [dir_mtime EXCEPT ![a] = MtimeAfterWrite(outbox[a], dir_mtime[a], entry, now)]
       /\ last' = [op |-> "write", agent |-> a]
       /\ UNCHANGED <<files_cache, now>>

StoreRead(a, limit, since_tick) ==
    /\ last' = [op |-> "read", agent |-> a, limit |-> limit, since_tick |-> since_tick,
                ret |-> read_outbox_entries(outbox[a], dir_mtime[a], limit, since_tick)]
    /\ UNCHANGED <<outbox, dir_mtime, files_cache, now>>

\* fresh: every listing the call worked from was the directory's current one.
StoreReadMulti(agent_names, limit, since_tick) ==
    /\ last' = [op |-> "read_multi", agent_names |-> agent_names, limit |-> limit,
                since_tick |-> since_tick,
                fresh |-> \A k \in 1..Len(agent_names) :
                              ListingUsed(outbox[agent_names[k]], dir_mtime[agent_names[k]],
                                          files_cache[agent_names[k]])
                                  = ScanDir(outbox[agent_names[k]]),
                ret |-> read_multi_agent_outbox_entries(outbox, dir_mtime, files_cache,
                                                        agent_names, limit, since_tick)]
    /\ files_cache' = CacheAfterReadMulti(outbox, dir_mtime, files_cache, agent_names, limit)
    /\ UNCHANGED <<outbox, dir_mtime, now>>

StoreCleanup(current_tick, max_age_ticks) ==
    /\ outbox' = DirsAfterCleanup(outbox, current_tick, max_age_ticks)
    /\ dir_mtime' = MtimesAfterCleanup(outbox, dir_mtime, current_tick, max_age_ticks, now)
    /\ last' = [op |-> "cleanup", current_tick |-> current_tick,
                max_age_ticks |-> max_age_ticks,
                ret |-> cleanup_old_outbox_entries(outbox, current_tick, max_age_ticks)]
    /\ UNCHANGED <<files_cache, now>>

StoreTicks == 0..MaxStoreTick
SinceValues == {SinceNone} \cup {Since(t) : t \in 1..MaxStoreTick}

\* Lists of distinct agent names, one or two long.
AgentNameLists ==
    {<<a>> : a \in Dirs} \cup {l \in [1..2 -> Dirs] : l[1] # l[2]}

StoreNext ==
    \/ StoreAdvance
    \/ \E a \in Dirs, t \in StoreTicks, id \in 1..MaxId : StoreWrite(a, t, id)
    \/ \E a \in Dirs, limit \in 0..MaxLimit, s \in SinceValues : StoreRead(a, limit, s)
    \/ \E l \in AgentNameLists, limit \in 0..MaxLimit, s \in SinceValues : StoreReadMulti(l, limit, s)

StoreSpec == StoreInit /\ [][StoreNext /\ UNCHANGED <<schedVars, engineVars>>]_vars

\* RetentionSpec: the outbox store under writes and retention cleanup.
\* The id of an entry plays no part in cleanup: each write takes the least
\* fresh one.
RetentionWrite(a, t) ==
    /\ FreshIds(outbox, 1)[1] <= MaxId
    /\ StoreWrite(a, t, FreshIds(outbox, 1)[1])

RetentionNext ==
    \/ \E a \in Dirs, t \in StoreTicks : RetentionWrite(a, t)
    \/ \E c \in 0..(MaxStoreTick + 2), m \in 0..MaxAge : StoreCleanup(c, m)

RetentionSpec == StoreInit /\ [][RetentionNext /\ UNCHANGED <<schedVars, engineVars>>]_vars

\* CacheSpec: the listing cache under writes, cleanup deletions and reads of
\* one process. now counts the granules of st_mtime: a write or a deletion
\* that follows a read without StoreAdvance in between falls into the granule
\* of the mtime the read cached.
CacheNext ==
    \/ StoreAdvance
    \/ \E a \in Dirs, t \in StoreTicks : RetentionWrite(a, t)
    \/ \E m \in 0..MaxAge : StoreCleanup(MaxStoreTick + 1, m)
    \/ \E l \in AgentNameLists : StoreReadMulti(l, MaxLimit, SinceNone)

CacheSpec == StoreInit /\ [][CacheNext /\ UNCHANGED <<schedVars, engineVars>>]_vars

\* CleanupSpec: cleanup_old_outbox_entries called twice in a row, with the
\* same arguments and no write in between. changed: the second call left the
\* outboxes other than the first had left them.
CleanupTwice(current_tick, max_age_ticks) ==
    LET once == DirsAfterCleanup(outbox, current_tick, max_age_ticks)
        mtimes == MtimesAfterCleanup(outbox, dir_mtime, current_tick, max_age_ticks, now)
    IN /\ outbox' = DirsAfterCleanup(once, current_tick, max_age_ticks)
       /\ dir_mtime' = MtimesAfterCleanup(once, mtimes, current_tick, max_age_ticks, now)
       /\ last' = [op |-> "cleanup_twice", current_tick |-> current_tick,
                   max_age_ticks |-> max_age_ticks,
                   changed |-> DirsAfterCleanup(once, current_tick, max_age_ticks) # once,
                   first |-> cleanup_old_outbox_entries(outbox, current_tick, max_age_ticks),
                   second |-> cleanup_old_outbox_entries(once, current_tick, max_age_ticks)]
       /\ UNCHANGED <<files_cache, now>>

CleanupNext ==
    \/ \E a \in Dirs, t \in StoreTicks : RetentionWrite(a, t)
    \/ \E c \in MaxStoreTick..(MaxStoreTick + 1), m \in 0..MaxAge : CleanupTwice(c, m)

CleanupSpec == StoreInit /\ [][CleanupNext /\ UNCHANGED <<schedVars, engineVars>>]_vars

\* collect_readable_outboxes, the names it hands to
\* read_multi_agent_outbox_entries: with ["*"] the directories under agents/
\* (existing) but the reader's and agent_template, in the order of os.scandir
\* (taken to be DirOrder); else the list without the reader's name.
\* A variant leaves the reader's own directory in.
DirOrder == AgentNames \o <<"agent_template">>
collect_readable_names_with_own(agent_name, read_outboxes, existing) ==
    IF read_outboxes = <<"*">>
    THEN SelectSeq(DirOrder, LAMBDA a : a \in existing /\ a # "agent_template")
    ELSE read_outboxes

collect_readable_names(agent_name, read_outboxes, existing) ==
    IF read_outboxes = <<"*">>
    THEN SelectSeq(DirOrder, LAMBDA a : a \in existing /\ a \notin {agent_name, "agent_template"})
    ELSE SelectSeq(read_outboxes, LAMBDA a : a # agent_name)

\* The limit _build_prompt passes to collect_readable_outboxes.
PromptReadLimit == 30

\* CollectSpec: collect_readable_outboxes while agent directories come into
\* being. agents/<a> exists once a's outbox has been written to.
CollectDirs == Dirs \cup {"agent_template"}
ExistingDirs(mtimes) == {a \in DOMAIN mtimes : mtimes[a] # NoDir}

\* The read_outboxes of the reader, AgentNames[1]: the wildcard, one name, or
\* its own name and another.
CollectReadLists ==
    {<<"*">>} \cup {<<a>> : a \in CollectDirs}
        \cup {<<AgentNames[1], a>> : a \in CollectDirs \ {AgentNames[1]}}

CollectInit ==
    /\ outbox = [a \in CollectDirs |-> {}]
    /\ dir_mtime = [a \in CollectDirs |-> NoDir]
    /\ files_cache = [a \in CollectDirs |-> NoCache]
    /\ now = 1
    /\ EngineIdle
    /\ agents = <<>>
    /\ cur_tick = 0
    /\ firing = <<>>
    /\ tick_file = [state |-> "absent", current_tick |-> 0]
    /\ credits = [a \in Dirs |-> NoCreditRecord]
    /\ config = [max_outbox_age_ticks |-> DefaultMaxOutboxAge, max_turns |-> NoMaxTurns]
    /\ memory = [a \in Dirs |-> {}]
    /\ last = [op |-> "none"]

\* write_outbox_entry(base, a, OutboxEntry.create(a, t, ...)); created: the
\* write made agents/<a>; after_collect: it followed a
\* collect_readable_outboxes call.
CollectWrite(a, t) ==
    /\ TotalEntries(outbox) < MaxEntries
    /\ FreshIds(outbox, 1)[1] <= MaxId
    /\ outbox' = [outbox EXCEPT ![a] =
                     DirAfterWrite(outbox[a], OutboxEntry(a, t, FreshIds(outbox, 1)[1], now, RecipNone))]
    /\ dir_mtime' = [dir_mtime EXCEPT ![a] =
                        MtimeAfterWrite(outbox[a], dir_mtime[a],
                                        OutboxEntry(a, t, FreshIds(outbox, 1)[1], now, RecipNone), now)]
    /\ last' = [op |-> "write", agent |-> a, created |-> dir_mtime[a] = NoDir,
                after_collect |-> last.op = "collect"]
    /\ UNCHANGED <<files_cache, now>>

\* collect_readable_outboxes(base, reader, read_outboxes, PromptReadLimit).
\* new_dir: the directory the write before this call made, that write having
\* followed an earlier call ("" when there is none).
Collect(reader, read_outboxes) ==
    LET names == collect_readable_names(reader, read_outboxes, ExistingDirs(dir_mtime))
    IN /\ last' = [op |-> "collect", reader |-> reader, read_outboxes |-> read_outboxes,
                   existing |-> ExistingDirs(dir_mtime),
                   names |-> names,
                   new_dir |-> IF last.op = "write" /\ last.created /\ last.after_collect
                               THEN last.agent ELSE "",
                   fresh |-> \A k \in 1..Len(names) :
                                 ListingUsed(outbox[names[k]], dir_mtime[names[k]],
                                             files_cache[names[k]])
                                     = ScanDir(outbox[names[k]]),
                   ret |-> read_multi_agent_outbox_entries(outbox, dir_mtime, files_cache, names,
                                                           PromptReadLimit, SinceNone)]
       /\ files_cache' = CacheAfterReadMulti(outbox, dir_mtime, files_cache, names, PromptReadLimit)
       /\ UNCHANGED <<outbox, dir_mtime, now>>

CollectNext ==
    \/ StoreAdvance
    \/ \E a \in CollectDirs : CollectWrite(a, MaxStoreTick)
    \/ \E l \in CollectReadLists : Collect(AgentNames[1], l)

CollectSpec == CollectInit /\ [][CollectNext /\ UNCHANGED <<schedVars, engineVars>>]_vars

\* GarbageSpec: outbox directories that also hold files write_outbox_entry
\* did not write, as the test of read_outbox_entries makes them.
\* "z_1.json" and "z_2.json" (no numeric prefix), and "00000009_1.txt" (the
\* name of an entry with another extension).
NonEntryFiles ==
    {NonEntryFile(<<122, CharUnderscore, CharZero + 1>>, TRUE),
     NonEntryFile(<<122, CharUnderscore, CharZero + 2>>, TRUE),
     NonEntryFile(FormatTick(9) \o <<CharUnderscore, CharZero + 1>>, FALSE)}

\* open(path, "w") on a name the directory does not hold.
GarbageCreate(a, file) ==
    /\ dir_mtime[a] # NoDir
    /\ file \notin outbox[a]
    /\ TotalEntries(outbox) < MaxEntries
    /\ outbox' = [outbox EXCEPT ![a] = @ \cup {file}]
    /\ dir_mtime' = [dir_mtime EXCEPT ![a] = now]
    /\ last' = [op |-> "create", agent |-> a]
    /\ UNCHANGED <<files_cache, now>>

\* The writes of the test: each entry of an outbox has a tick of its own, one
\* above the ticks the outbox holds.
NextTick(dir) == Cardinality({f \in dir : f.valid})

GarbageWrite(a) ==
    /\ NextTick(outbox[a]) <= MaxStoreTick
    /\ RetentionWrite(a, NextTick(outbox[a]))

GarbageNext ==
    \/ StoreAdvance
    \/ \E a \in Dirs : GarbageWrite(a)
    \/ \E a \in Dirs, file \in NonEntryFiles : GarbageCreate(a, file)
    \/ \E a \in Dirs, limit \in 0..MaxLimit, s \in SinceValues : StoreRead(a, limit, s)
    \/ \E a \in Dirs, limit \in 0..MaxLimit : StoreReadMulti(<<a>>, limit, SinceNone)

GarbageSpec == StoreInit /\ [][GarbageNext /\ UNCHANGED <<schedVars, engineVars>>]_vars

\* WriteSpec: write_outbox_entry step by step, with a reader in another
\* process (the API listing messages while a tick runs).
\* The file between entry_path.open("w") and the end of the with block: the
\* path exists, and its content (nothing yet, or what json.dump has flushed)
\* is not the whole of the entry it is becoming.
PartialFile(entry) ==
    [name |-> outbox_filename(entry), json |-> TRUE, valid |-> FALSE, entry |-> entry]

\* The files a write_outbox_entry call has open.
InFlight(dir) == {f \in dir : f.json /\ ~f.valid}

\* entry_path.open("w"): the file is created empty; the directory's mtime
\* changes. The engine writes one entry at a time.
WriteOpen(a, t) ==
    LET used == {f.entry.id : f \in UNION {outbox[d] : d \in Dirs}}
        entry == OutboxEntry(a, t, FreshFrom(used, 1, 1)[1], now, RecipNone)
    IN /\ \A d \in Dirs : InFlight(outbox[d]) = {}
       /\ TotalEntries(outbox) < MaxEntries
       /\ entry.id <= MaxId
       /\ outbox' = [outbox EXCEPT ![a] = outbox[a] \cup {PartialFile(entry)}]
       /\ dir_mtime' = [dir_mtime EXCEPT ![a] = MtimeAfterWrite(outbox[a], dir_mtime[a], entry, now)]
       /\ last' = [op |-> "open", agent |-> a]
       /\ UNCHANGED <<files_cache, now>>

\* json.dump(entry.to_dict(), f, indent=2) and the close of the file.
WriteDump(a) ==
    /\ InFlight(outbox[a]) # {}
    /\ outbox' = [outbox EXCEPT ![a] = {IF f \in InFlight(outbox[a]) THEN EntryFile(f.entry) ELSE f
                                         : f \in outbox[a]}]
    /\ last' = [op |-> "dump", agent |-> a]
    /\ UNCHANGED <<dir_mtime, files_cache, now>>

\* What a reader in another process finds at the path of an entry.
Observed(dir, name) ==
    IF name \notin NamesOf(dir) THEN "no_file"
    ELSE IF _load_entry(dir, name).loaded THEN "complete"
    ELSE "partial"

WriteObserve(a, t, id) ==
    /\ last' = [op |-> "observe", agent |-> a,
                seen |-> Observed(outbox[a], outbox_filename(OutboxEntry(a, t, id, 0, RecipNone)))]
    /\ UNCHANGED <<outbox, dir_mtime, files_cache, now>>

WriteNext ==
    \/ StoreAdvance
    \/ \E a \in Dirs, t \in 0..MaxStoreTick : WriteOpen(a, t)
    \/ \E a \in Dirs : WriteDump(a)
    \/ \E a \in Dirs, t \in 0..MaxStoreTick, id \in 1..MaxId : WriteObserve(a, t, id)

WriteSpec == StoreInit /\ [][WriteNext /\ UNCHANGED <<schedVars, engineVars>>]_vars

\* FilenameSpec: outbox_filename applied to two drawn entries.
\* Ticks of one digit, of TickPadWidth digits and of one digit more.
FilenameTicks ==
    {0, 1, 9, 10, 10 ^ (TickPadWidth - 1), 10 ^ TickPadWidth - 1, 10 ^ TickPadWidth,
     10 ^ TickPadWidth + 1, 2 * 10 ^ TickPadWidth}

FilenameCompare(t, id, u, jd) ==
    /\ last.op = "none"
    /\ last' = [op |-> "outbox_filename",
                e |-> OutboxEntry("alpha", t, id, now, RecipNone),
                f |-> OutboxEntry("alpha", u, jd, now, RecipNone),
                name_e |-> outbox_filename(OutboxEntry("alpha", t, id, now, RecipNone)),
                name_f |-> outbox_filename(OutboxEntry("alpha", u, jd, now, RecipNone))]

FilenameNext ==
    \E t \in FilenameTicks, u \in FilenameTicks, id \in 1..MaxId, jd \in 1..MaxId :
        FilenameCompare(t, id, u, jd)

FilenameSpec ==
    StoreInit /\ [][FilenameNext /\ UNCHANGED <<schedVars, engineVars, outbox, dir_mtime,
                                                 files_cache, now>>]_vars

\* EntrySpec: OutboxEntry.to_dict / from_dict and the JSON text of an entry
\* file, applied to drawn entries. A dict is a function from its keys; of the
\* fields of an entry the model carries id, tick, agent, created_at and
\* recipients (None is RecipNone).
EntryFields == {"id", "tick", "agent", "created_at", "recipients"}

to_dict(e) == [k \in EntryFields |-> e[k]]

\* cls(**data): TypeError on a keyword that is no field, and on a missing one.
\* A variant of from_dict without the timestamp alias.
from_dict_no_alias(data) ==
    LET with_recipients ==
            IF "recipients" \notin DOMAIN data
            THEN [k \in DOMAIN data \cup {"recipients"} |->
                     IF k = "recipients" THEN RecipNone ELSE data[k]]
            ELSE data
    IN IF DOMAIN with_recipients # EntryFields
       THEN [raised |-> TRUE, entry |-> OutboxEntry("", 0, 0, 0, RecipNone)]
       ELSE [raised |-> FALSE,
             entry |-> OutboxEntry(with_recipients["agent"], with_recipients["tick"],
                                   with_recipients["id"], with_recipients["created_at"],
                                   with_recipients["recipients"])]

from_dict(data) ==
    LET with_created_at ==
            IF "created_at" \notin DOMAIN data /\ "timestamp" \in DOMAIN data
            THEN [k \in (DOMAIN data \ {"timestamp"}) \cup {"created_at"} |->
                     IF k = "created_at" THEN data["timestamp"] ELSE data[k]]
            ELSE data
        with_recipients ==
            IF "recipients" \notin DOMAIN with_created_at
            THEN [k \in DOMAIN with_created_at \cup {"recipients"} |->
                     IF k = "recipients" THEN RecipNone ELSE with_created_at[k]]
            ELSE with_created_at
    IN IF DOMAIN with_recipients # EntryFields
       THEN [raised |-> TRUE, entry |-> OutboxEntry("", 0, 0, 0, RecipNone)]
       ELSE [raised |-> FALSE,
             entry |-> OutboxEntry(with_recipients["agent"], with_recipients["tick"],
                                   with_recipients["id"], with_recipients["created_at"],
                                   with_recipients["recipients"])]

\* json.dump of a dict: the members of the JSON object, in the order of the
\* dict (to_dict builds it in the order of EntryKeyOrder). json.load builds the
\* dict back from the members, the last one of a key winning.
EntryKeyOrder == <<"id", "tick", "agent", "created_at", "recipients">>
JsonDump(data, order) ==
    [i \in 1..Len(SelectSeq(order, LAMBDA k : k \in DOMAIN data)) |->
        <<SelectSeq(order, LAMBDA k : k \in DOMAIN data)[i],
          data[SelectSeq(order, LAMBDA k : k \in DOMAIN data)[i]]>>]
JsonLoad(text) ==
    [k \in {text[i][1] : i \in 1..Len(text)} |->
        text[CHOOSE i \in 1..Len(text) :
                 text[i][1] = k /\ \A j \in (i + 1)..Len(text) : text[j][1] # k][2]]

\* The record an older version wrote: timestamp in the place of created_at.
LegacyDict(e) ==
    [k \in (EntryFields \ {"created_at"}) \cup {"timestamp"} |->
        IF k = "timestamp" THEN e.created_at ELSE e[k]]
LegacyKeyOrder == <<"id", "tick", "agent", "timestamp", "recipients">>

\* A record without the recipients key.
DictWithoutRecipients(e) == [k \in EntryFields \ {"recipients"} |-> e[k]]

EntryRecipients ==
    {RecipNone, RecipList(<<>>), RecipList(<<"bravo">>), RecipList(<<"alpha", "bravo">>)}

DrawnEntries ==
    {OutboxEntry(a, t, id, c, r) :
        a \in Dirs, t \in StoreTicks, id \in 1..MaxId, c \in 1..MaxNow, r \in EntryRecipients}

EntryRoundTrip(e) ==
    /\ last.op = "none"
    /\ last' = [op |-> "round_trip", e |-> e, ret |-> from_dict(to_dict(e))]

\* write_outbox_entry(base, e.agent, e), then _load_entry on its file.
EntryWriteRead(e) ==
    /\ last.op = "none"
    /\ last' = [op |-> "write_read", e |-> e,
                ret |-> from_dict(JsonLoad(JsonDump(to_dict(e), EntryKeyOrder)))]

\* _load_entry on the file of a legacy record.
EntryLegacy(e) ==
    /\ last.op = "none"
    /\ last' = [op |-> "legacy", e |-> e,
                ret |-> from_dict(JsonLoad(JsonDump(LegacyDict(e), LegacyKeyOrder)))]

EntryNoRecipients(e) ==
    /\ last.op = "none"
    /\ last' = [op |-> "no_recipients", e |-> e, ret |-> from_dict(DictWithoutRecipients(e))]

EntryNext ==
    \E e \in DrawnEntries :
        \/ EntryRoundTrip(e)
        \/ EntryWriteRead(e)
        \/ EntryLegacy(e)
        \/ EntryNoRecipients(e)

EntrySpec ==
    StoreInit /\ [][EntryNext /\ UNCHANGED <<schedVars, engineVars, outbox, dir_mtime,
                                              files_cache, now>>]_vars

-----------------------------------------------------------------------------
(* Properties of the outbox store (StoreSpec, RetentionSpec) *)

\* C7: for two agents a, b and a limit L >= 1,
\* read_multi_agent_outbox_entries([a, b], L) returns the same entries as
\* read_outbox_entries(a, L) united with read_outbox_entries(b, L), sorted by
\* (tick, created_at) descending and cut to L. Entries that tie in
\* (tick, created_at) may be cut either way; the directory listings the call
\* used are the current ones.
C7_ReadMultiIsMergeOfReads ==
    (/\ last.op = "read_multi"
     /\ last.limit >= 1
     /\ ~last.since_tick.given
     /\ Len(last.agent_names) = 2
     /\ last.fresh) =>
        LET U == UNION {SeqToSet(read_outbox_entries(outbox[a], dir_mtime[a],
                                                     last.limit, SinceNone)) :
                            a \in SeqToSet(last.agent_names)}
            R == SeqToSet(last.ret)
        IN /\ Len(last.ret) = Min(last.limit, Cardinality(U))
           /\ Cardinality(R) = Len(last.ret)
           /\ R \subseteq U
           /\ \A u \in U \ R : \A r \in R : ~EntryBefore(u, r)

\* C8: read_outbox_entries(agent, limit, since_tick) returns the first
\* min(limit, n) of the agent's n entries (those with tick >= since_tick when
\* it is given) in the order tick descending, created_at descending, and the
\* empty list when limit <= 0. Entries that tie in (tick, created_at) may come
\* in either order.
C8_ReadReturnsNewestFirst ==
    last.op = "read" =>
        LET E == {e \in {f.entry : f \in outbox[last.agent]} :
                      last.since_tick.given => e.tick >= last.since_tick.value}
            R == SeqToSet(last.ret)
        IN IF last.limit <= 0 THEN last.ret = <<>>
           ELSE /\ Len(last.ret) = Min(last.limit, Cardinality(E))
                /\ Cardinality(R) = Len(last.ret)
                /\ R \subseteq E
                /\ \A i, j \in 1..Len(last.ret) :
                       i < j => ~EntryBefore(last.ret[j], last.ret[i])
                /\ \A e \in E \ R : \A r \in R : ~EntryBefore(e, r)

-----------------------------------------------------------------------------
(* SchedSpec: the scheduling functions applied to drawn agent lists *)

\* AgentPermissions() as the scheduler tests build it.
DefaultAgent(name, n, offset) == Agent(name, n, offset, SendMissing, <<>>, <<>>)

SchedNames == {AgentNames[i] : i \in 1..Min(MaxAgents, Len(AgentNames))}

SchedAgentSet ==
    {DefaultAgent(name, n, offset) :
        name \in SchedNames, n \in {-MaxNegN} \cup 0..MaxN, offset \in (-1)..MaxOffset}

\* Lists of agents with pairwise distinct names (discover_agents skips duplicates).
SchedAgentLists ==
    UNION {{l \in [1..k -> SchedAgentSet] :
                \A i, j \in 1..k : i # j => l[i].name # l[j].name} : k \in 1..MaxAgents}

SchedInit ==
    /\ agents \in SchedAgentLists
    /\ cur_tick = 0
    /\ firing = <<>>
    /\ last = [op |-> "none"]
    /\ StoreEmpty
    /\ EngineIdle
    /\ tick_file = [state |-> "absent", current_tick |-> 0]
    /\ credits = [a \in Dirs |-> NoCreditRecord]
    /\ config = [max_outbox_age_ticks |-> DefaultMaxOutboxAge, max_turns |-> NoMaxTurns]
    /\ memory = [a \in Dirs |-> {}]

\* One behaviour of SchedSpec is one call on the drawn list.
SchedShouldRun(i, t) ==
    /\ last.op = "none"
    /\ cur_tick' = t
    /\ last' = [op |-> "should_run", agent |-> agents[i], tick |-> t,
                ret |-> should_run(agents[i], t)]
    /\ UNCHANGED <<agents, firing>>

SchedGetFiringAgents(t) ==
    /\ last.op = "none"
    /\ cur_tick' = t
    /\ firing' = get_firing_agents(agents, t)
    /\ last' = [op |-> "get_firing_agents", tick |-> t]
    /\ UNCHANGED agents

SchedNext ==
    \/ \E i \in 1..Len(agents), t \in 0..MaxSchedTick : SchedShouldRun(i, t)
    \/ \E t \in 0..MaxSchedTick : SchedGetFiringAgents(t)

SchedSpec ==
    SchedInit /\ [][SchedNext /\ UNCHANGED <<engineVars, outbox, dir_mtime, files_cache, now>>]_vars

-----------------------------------------------------------------------------
(* The engine: run_once / run_forever / run_tick / run_agent (lemming/engine.py) *)

MaxEngineTick == 2   \* run_tick is started for ticks 0..MaxEngineTick
MaxCredits == 2      \* credits_left in credits.json, in units of cost_per_action
MaxExplicitTick == 0 \* run_once is given no tick or a tick in 0..MaxExplicitTick

\* load_tick: the file's current_tick, 1 when the file is absent or unreadable.
\* A variant never reads the file.
load_tick_default(tf) == 1

load_tick(tf) == IF tf.state = "valid" THEN tf.current_tick ELSE 1

persist_tick(tick) == [state |-> "valid", current_tick |-> tick]

\* run_once up to its call of run_tick: tick_to_run and the tick file, which
\* is written only after run_tick returned. A variant persists first.
RunOnceStartPersistFirst(tf, arg) ==
    LET tick_to_run == IF arg.given THEN arg.value ELSE load_tick(tf)
    IN [tick_to_run |-> tick_to_run, tick_file |-> persist_tick(tick_to_run + 1)]

RunOnceStart(tf, arg) ==
    [tick_to_run |-> IF arg.given THEN arg.value ELSE load_tick(tf), tick_file |-> tf]

\* org.get_credits(base_path, agents): _ensure_credit_entry gives an agent
\* without a record max_credits credits (in units of the default cost 0.01).
DefaultMaxCredits == 100000

_ensure_credit_entry(agent_list, ledger) ==
    [a \in DOMAIN ledger |->
        IF ~ledger[a].present /\ \E i \in 1..Len(agent_list) : agent_list[i].name = a
        THEN CreditRecord(DefaultMaxCredits)
        ELSE ledger[a]]

\* get_agent_credits(...).get("credits_left", 0.0)
get_agent_credits(ledger, name) ==
    IF ledger[name].present THEN ledger[name] ELSE CreditRecord(0)

\* The credit gate of run_agent: credits_left <= 0. A variant lets 0 pass.
NoCreditsStrict(credits_left) == credits_left < 0

NoCredits(credits_left) == credits_left <= 0

deduct_credits(ledger, name, amount) ==
    [ledger EXCEPT ![name] = [present |-> TRUE,
                              credits_left |-> get_agent_credits(ledger, name).credits_left - amount,
                              cost_per_action |-> IF ledger[name].present
                                                  THEN ledger[name].cost_per_action ELSE amount]]

\* call_llm is invoked once per turn; run_agent has no retry loop. A variant
\* calls it a second time.
LLMCallsAfterRetry(n) == n + 2

LLMCallsAfter(n) == n + 1

\* A generator reply after json.loads, as far as run_agent looks at it.
\* An outbox item: whether it is a JSON object, and its "to" field (absent, a
\* string, a list of strings, or anything else).
ToAbsent == [kind |-> "absent", list |-> <<>>]
ToStr(t) == [kind |-> "str", list |-> <<t>>]
ToList(l) == [kind |-> "list", list |-> l]
ToOther == [kind |-> "other", list |-> <<>>]
OutboxItem(to) == [is_object |-> TRUE, to |-> to]
NotAnObject == [is_object |-> FALSE]

\* A tool_calls item: "tool" is a string, another hashable value (a number,
\* null, absent) or an unhashable one (a list); "args" is absent or falsy, a
\* mapping, or a truthy value that is no mapping.
ToolStr(name) == [kind |-> "str", name |-> name]
ToolOther == [kind |-> "other", name |-> ""]
ToolUnhashable == [kind |-> "unhashable", name |-> ""]
ToolItem(tool, args) == [is_object |-> TRUE, tool |-> tool, args |-> args]

\* A memory_updates item: has_key ("key" in update), key ("" stands for every
\* falsy key), op (absent or falsy, a string, or a truthy non-string), value.
OpAbsent == [kind |-> "absent", text |-> ""]
OpStr(t) == [kind |-> "str", text |-> t]
OpOther == [kind |-> "other", text |-> ""]
MemItem(has_key, key, op, value) ==
    [is_object |-> TRUE, has_key |-> has_key, key |-> key, op |-> op, value |-> value]

\* A top-level list field of a reply object: absent, null, a list, or a value
\* of another type.
FieldAbsent == [kind |-> "absent", items |-> <<>>]
FieldNull == [kind |-> "null", items |-> <<>>]
FieldList(l) == [kind |-> "list", items |-> l]
FieldOther == [kind |-> "other", items |-> <<>>]

\* The "notes" field: absent, a string, or another JSON value, given by its
\* JSON text (null, true, a number).
NotesAbsent == [kind |-> "absent", text |-> ""]
NotesStr(t) == [kind |-> "str", text |-> t]
NotesOther(json_text) == [kind |-> "other", text |-> json_text]

\* str() of the value json.loads makes of a JSON text.
PyStr(json_text) ==
    IF json_text = "null" THEN "None"
    ELSE IF json_text = "true" THEN "True"
    ELSE IF json_text = "false" THEN "False"
    ELSE json_text

\* A reply: form is "invalid" (json.loads raises JSONDecodeError), "unloadable"
\* (json.loads raises another exception: RecursionError on deeply nested text,
\* ValueError on an integer of more than 4300 digits), "not_object", or
\* "object"; extra = TRUE when the object has fields besides the four.
ReplyObject(outbox_entries, tool_calls, memory_updates, notes, extra) ==
    [form |-> "object", outbox_entries |-> outbox_entries, tool_calls |-> tool_calls,
     memory_updates |-> memory_updates, notes |-> notes, extra |-> extra]
Reply(outbox_entries, tool_calls, memory_updates) ==
    ReplyObject(FieldList(outbox_entries), FieldList(tool_calls), FieldList(memory_updates),
                NotesAbsent, FALSE)
ReplyOfForm(form) ==
    [form |-> form, outbox_entries |-> FieldAbsent, tool_calls |-> FieldAbsent,
     memory_updates |-> FieldAbsent, notes |-> NotesAbsent, extra |-> FALSE]

\* _ensure_list: the list, [] for None, an absent field or another type.
_ensure_list(value) == IF value.kind = "list" THEN value.items ELSE <<>>

\* _sanitize_outbox: items that are no objects are skipped; recipients is the
\* "to" field when it is a string or a list of strings, else None.
RECURSIVE _sanitize_outbox(_)
_sanitize_outbox(entries) ==
    IF entries = <<>> THEN <<>>
    ELSE LET entry == Head(entries)
         IN IF ~entry.is_object THEN _sanitize_outbox(Tail(entries))
            ELSE <<[recipients |-> IF entry.to.kind \in {"str", "list"}
                                   THEN RecipList(entry.to.list) ELSE RecipNone]>>
                 \o _sanitize_outbox(Tail(entries))

\* _sanitize_memory: items that are no objects or have no "key" are skipped.
_sanitize_memory(updates) ==
    LET kept == SelectSeq(updates, LAMBDA u : u.is_object /\ u.has_key)
    IN [k \in 1..Len(kept) |-> [key |-> kept[k].key, value |-> kept[k].value, op |-> kept[k].op]]

\* _parse_llm_output: raised = TRUE when an exception leaves it (json.loads is
\* guarded by except json.JSONDecodeError only); the default for a reply that
\* is no JSON object; tool_calls is passed on as the list it is.
ParseDefault ==
    [raised |-> FALSE, outbox_entries |-> <<>>, tool_calls |-> <<>>, memory_updates |-> <<>>,
     notes |-> ""]

_parse_llm_output(reply) ==
    IF reply.form = "unloadable" THEN [ParseDefault EXCEPT !.raised = TRUE]
    ELSE IF reply.form # "object" THEN ParseDefault
    ELSE [raised |-> FALSE,
          outbox_entries |-> _sanitize_outbox(_ensure_list(reply.outbox_entries)),
          tool_calls |-> _ensure_list(reply.tool_calls),
          memory_updates |-> _sanitize_memory(_ensure_list(reply.memory_updates)),
          notes |-> IF reply.notes.kind = "other" THEN PyStr(reply.notes.text)
                    ELSE reply.notes.text]

\* allowed_targets of run_agent: None (unrestricted) for None or [].
AllowedTargets(send) ==
    IF send.is_none \/ send.list = <<>>
    THEN [restricted |-> FALSE, list |-> <<>>]
    ELSE [restricted |-> TRUE, list |-> send.list]

\* The outbox entries of a reply that run_agent writes.
EntryAllowedAnyRecipient(entry_data, allowed) ==
    \/ ~allowed.restricted
    \/ allowed.list = <<"*">>
    \/ /\ ~entry_data.recipients.is_none
       /\ \E k \in 1..Len(entry_data.recipients.list) :
              entry_data.recipients.list[k] \in SeqToSet(allowed.list)

EntryAllowed(entry_data, allowed) ==
    \/ ~allowed.restricted
    \/ allowed.list = <<"*">>
    \/ /\ ~entry_data.recipients.is_none
       /\ \A k \in 1..Len(entry_data.recipients.list) :
              entry_data.recipients.list[k] \in SeqToSet(allowed.list)

\* write_outbox_entry for each entry of a list, in order.
RECURSIVE WriteAll(_, _, _, _)
WriteAll(dir, mtime, entries, clock) ==
    IF entries = <<>> THEN [dir |-> dir, mtime |-> mtime]
    ELSE WriteAll(DirAfterWrite(dir, Head(entries)),
                  MtimeAfterWrite(dir, mtime, Head(entries), clock),
                  Tail(entries), clock)

\* ToolRegistry: the tools registered at import.
RegisteredTools ==
    {"file_read", "file_write", "file_list", "shell", "memory_read", "memory_write",
     "create_agent", "list_agents"}

\* ToolResult, with executed = TRUE when it is what tool.execute returned.
ToolNotPermitted == [success |-> FALSE, executed |-> FALSE, error |-> "not_permitted"]
ToolUnknown == [success |-> FALSE, executed |-> FALSE, error |-> "unknown_tool"]
ToolExecuted == [success |-> TRUE, executed |-> TRUE, error |-> "none"]

\* _execute_tools, from the call at position k on: raised = TRUE when a call
\* raises (call.get on a value that is no dict, an unhashable tool name tested
\* against the set of allowed names, ** on args that is no mapping); results
\* are the ToolResults appended and execs the tool.execute calls made so far.
RECURSIVE ExecuteFrom(_, _, _, _, _)
ExecuteFrom(agent, tool_calls, k, acc, execs) ==
    IF k > Len(tool_calls) THEN [raised |-> FALSE, results |-> acc, execs |-> execs]
    ELSE LET call == tool_calls[k]
         IN IF ~call.is_object \/ call.tool.kind = "unhashable"
            THEN [raised |-> TRUE, results |-> acc, execs |-> execs]
            ELSE IF call.tool.kind # "str" \/ call.tool.name \notin SeqToSet(agent.tools)
            THEN ExecuteFrom(agent, tool_calls, k + 1, Append(acc, ToolNotPermitted), execs)
            ELSE IF call.tool.name \notin RegisteredTools
            THEN ExecuteFrom(agent, tool_calls, k + 1, Append(acc, ToolUnknown), execs)
            ELSE IF call.args = "not_mapping"
            THEN [raised |-> TRUE, results |-> acc, execs |-> execs]
            ELSE ExecuteFrom(agent, tool_calls, k + 1, Append(acc, ToolExecuted), execs + 1)

_execute_tools(agent, tool_calls) == ExecuteFrom(agent, tool_calls, 1, <<>>, 0)

\* memory_dir / f"{key}.json" as the file system resolves it: the file of the
\* memory directory it names (by its stem), or ok = FALSE when the path leads
\* through a directory that does not exist.
MemoryFile(key) ==
    IF key = "./goal" THEN [ok |-> TRUE, name |-> "goal"]
    ELSE IF key = "sub/goal" THEN [ok |-> FALSE, name |-> ""]
    ELSE [ok |-> TRUE, name |-> key]

\* memory.save_memory / memory.delete_memory / memory.load_memory on one
\* agent's memory directory, a set of files [key (the stem), value]. save_memory
\* raises FileNotFoundError when MemoryFile(key) is not ok; the others find no
\* file then.
save_memory(mem, key, value) ==
    {m \in mem : m.key # MemoryFile(key).name}
        \cup {[key |-> MemoryFile(key).name, value |-> value]}
delete_memory(mem, key) ==
    IF MemoryFile(key).ok THEN {m \in mem : m.key # MemoryFile(key).name} ELSE mem
NoMemory == [found |-> FALSE, value |-> 0]
load_memory(mem, key) ==
    IF MemoryFile(key).ok /\ \E m \in mem : m.key = MemoryFile(key).name
    THEN [found |-> TRUE, value |-> (CHOOSE m \in mem : m.key = MemoryFile(key).name).value]
    ELSE NoMemory

\* str.lower on the op names drawn.
Lower(t) == IF t = "DELETE" THEN "delete" ELSE IF t = "Write" THEN "write" ELSE t

\* The memory loop of run_agent: raised = TRUE when op is a truthy value that
\* has no lower() or when save_memory raises; mem is the memory directory as
\* the loop left it.
RECURSIVE ApplyMemoryUpdates(_, _)
ApplyMemoryUpdates(mem, updates) ==
    IF updates = <<>> THEN [raised |-> FALSE, mem |-> mem]
    ELSE LET u == Head(updates)
             op == IF u.op.kind = "absent" \/ u.op.text = "" THEN "write" ELSE Lower(u.op.text)
         IN IF u.key = "" THEN ApplyMemoryUpdates(mem, Tail(updates))
            ELSE IF u.op.kind = "other" THEN [raised |-> TRUE, mem |-> mem]
            ELSE IF op = "delete"
            THEN ApplyMemoryUpdates(delete_memory(mem, u.key), Tail(updates))
            ELSE IF op # "write" THEN ApplyMemoryUpdates(mem, Tail(updates))
            ELSE IF ~MemoryFile(u.key).ok THEN [raised |-> TRUE, mem |-> mem]
            ELSE ApplyMemoryUpdates(save_memory(mem, u.key, u.value), Tail(updates))

\* The replies drawn in the engine specification.
LLMReplies ==
    {Reply(<<>>, <<>>, <<>>),
     Reply(<<OutboxItem(ToAbsent)>>, <<ToolItem(ToolStr("file_list"), "mapping")>>,
           <<MemItem(TRUE, "goal", OpAbsent, 1)>>),
     Reply(<<>>, <<NotAnObject>>, <<>>),
     Reply(<<>>, <<>>, <<MemItem(TRUE, "goal", OpOther, 1)>>),
     ReplyOfForm("unloadable")}

LLMOutputs == {_parse_llm_output(r) : r \in LLMReplies}

\* collect_readable_outboxes: the outboxes _build_prompt reads for an agent.
ReadableOutboxes(agent, dirs) ==
    collect_readable_names(agent.name, agent.read_outboxes, DOMAIN dirs)

\* What run_agent returns: {"skipped": True, ...} or the dict with tool_results.
TurnSkipped == [status |-> "skipped", tool_results |-> <<>>]
TurnCompleted(tool_results) == [status |-> "completed", tool_results |-> tool_results]

\* The outcomes of a run_tick that a raising turn ended.
FailedOutcomes == {"llm_error", "parse_error", "attribute_error", "tool_error", "memory_error"}

\* How run_tick goes on when a turn raised: the exception leaves the loop over
\* firing_agents. A variant catches it and goes on to the next agent.
AfterTurnRaisedContinue(p) == [pc |-> "agents", pos |-> p + 1]

AfterTurnRaised(p) == [pc |-> "idle", pos |-> p]

\* Agents as the engine meets them. send_outboxes is absent on an agent that
\* Agent.from_resume_data built, and None or a list on a descriptor that
\* declares it.
EngineAgent(name, n, offset, send) == Agent(name, n, offset, send, <<"file_list">>, <<"*">>)

EngineAgentLists ==
    {<<EngineAgent("alpha", 1, 0, sa), EngineAgent("bravo", nb, nb - 1, sb)>> :
        sa \in {SendMissing, SendNone, SendList(<<"bravo">>)},
        nb \in 1..2,
        sb \in {SendNone}}

TickFiles ==
    {[state |-> "absent", current_tick |-> 0], [state |-> "corrupt", current_tick |-> 0],
     persist_tick(2)}

Configs ==
    {[max_outbox_age_ticks |-> 0, max_turns |-> NoMaxTurns],
     [max_outbox_age_ticks |-> DefaultMaxOutboxAge, max_turns |-> MaxTurns(1)]}

\* credits.json: a record for each agent that has a resume, with no credits
\* left or with MaxCredits.
Ledgers ==
    {[a \in Dirs |-> IF a = "alpha" THEN CreditRecord(ca)
                     ELSE IF a = "bravo" THEN CreditRecord(cb)
                     ELSE NoCreditRecord] : ca \in {0, MaxCredits}, cb \in {0, MaxCredits}}

Init ==
    /\ agents \in EngineAgentLists
    /\ cur_tick = 0
    /\ firing = <<>>
    /\ EngineIdle
    /\ config \in Configs
    /\ tick_file \in TickFiles
    /\ credits \in Ledgers
    /\ memory = [a \in Dirs |-> {}]
    /\ StoreEmpty
    /\ last = [op |-> "none"]

\* run_tick up to its loop: discover_agents, get_credits, get_firing_agents.
BeginTick(tick) ==
    /\ tick <= MaxEngineTick
    /\ cur_tick' = tick
    /\ firing' = get_firing_agents(agents, tick)
    /\ pos' = 1
    /\ pc' = "agents"
    /\ outcome' = "running"
    /\ results' = <<>>
    /\ llm_calls' = 0
    /\ tool_execs' = 0
    /\ cleanup_log' = [called |-> FALSE, tick |-> 0, removed |-> 0]
    /\ credits' = _ensure_credit_entry(agents, credits)
    /\ now' = IF now < MaxNow THEN now + 1 ELSE now   \* each tick starts later, up to MaxNow
    /\ UNCHANGED <<agents, memory, config, outbox, dir_mtime, files_cache, last>>

\* run_once(base_path, tick)
RunOnce(arg) ==
    /\ pc = "idle"
    /\ driver' = "once"
    /\ tick_arg' = arg
    /\ tick_file' = RunOnceStart(tick_file, arg).tick_file
    /\ BeginTick(RunOnceStart(tick_file, arg).tick_to_run)

\* run_forever(base_path), to the first run_tick.
RunForever ==
    /\ pc = "idle"
    /\ driver' = "forever"
    /\ tick_arg' = SinceNone
    /\ UNCHANGED tick_file
    /\ BeginTick(load_tick(tick_file))

\* run_forever after time.sleep: the next iteration's run_tick.
RunForeverNext ==
    /\ pc = "sleep"
    /\ UNCHANGED <<driver, tick_arg, tick_file>>
    /\ BeginTick(cur_tick)

\* run_agent for firing[pos], credits_left <= 0.
RunAgentSkipped ==
    /\ pc = "agents" /\ pos <= Len(firing)
    /\ NoCredits(get_agent_credits(credits, firing[pos].name).credits_left)
    /\ results' = (firing[pos].name :> TurnSkipped) @@ results
    /\ pos' = pos + 1
    /\ UNCHANGED <<agents, cur_tick, firing, pc, driver, tick_arg, outcome, tick_file, credits,
                   memory, llm_calls, tool_execs, cleanup_log, config, storeVars>>

\* The part every funded turn shares: _build_prompt reads the readable
\* outboxes (filling the listing cache), then call_llm is invoked.
TurnCallsLLM ==
    /\ pc = "agents" /\ pos <= Len(firing)
    /\ ~NoCredits(get_agent_credits(credits, firing[pos].name).credits_left)
    /\ files_cache' = CacheAfterReadMulti(outbox, dir_mtime, files_cache,
                                          ReadableOutboxes(firing[pos], outbox), PromptReadLimit)
    /\ llm_calls' = LLMCallsAfter(llm_calls)

\* run_agent for firing[pos], call_llm raises: logged and raised again.
RunAgentLLMError ==
    /\ TurnCallsLLM
    /\ outcome' = "llm_error"
    /\ pc' = AfterTurnRaised(pos).pc
    /\ pos' = AfterTurnRaised(pos).pos
    /\ UNCHANGED <<agents, cur_tick, firing, driver, tick_arg, results, tick_file, credits, memory,
                   tool_execs, cleanup_log, config, outbox, dir_mtime, now, last>>

\* run_agent for firing[pos], call_llm returns and _parse_llm_output raises,
\* outside every try block of run_agent.
RunAgentParseError(parsed, turn_log) ==
    /\ TurnCallsLLM
    /\ parsed.raised
    /\ outcome' = "parse_error"
    /\ pc' = AfterTurnRaised(pos).pc
    /\ pos' = AfterTurnRaised(pos).pos
    /\ last' = turn_log
    /\ UNCHANGED <<agents, cur_tick, firing, driver, tick_arg, results, tick_file, credits, memory,
                   tool_execs, cleanup_log, config, outbox, dir_mtime, now>>

\* run_agent for firing[pos], call_llm returns and the agent's permissions have
\* no send_outboxes attribute: AttributeError before any entry is written.
RunAgentAttributeError ==
    /\ TurnCallsLLM
    /\ ~firing[pos].send_outboxes.defined
    /\ outcome' = "attribute_error"
    /\ pc' = AfterTurnRaised(pos).pc
    /\ pos' = AfterTurnRaised(pos).pos
    /\ UNCHANGED <<agents, cur_tick, firing, driver, tick_arg, results, tick_file, credits, memory,
                   tool_execs, cleanup_log, config, outbox, dir_mtime, now, last>>

\* run_agent for firing[pos] from the return of call_llm to the end of the
\* loop over outbox entries: the entries the allow-list lets through are
\* written in order.
KeptEntries(agent, parsed) ==
    SelectSeq(parsed.outbox_entries,
              LAMBDA e : EntryAllowed(e, AllowedTargets(agent.send_outboxes)))

TurnWritesOutbox(parsed) ==
    LET agent == firing[pos]
        kept == KeptEntries(agent, parsed)
        ids == FreshIds(outbox, Len(kept))
        entries == [k \in 1..Len(kept) |->
                       OutboxEntry(agent.name, cur_tick, ids[k], now, kept[k].recipients)]
        written == WriteAll(outbox[agent.name], dir_mtime[agent.name], entries, now)
    IN /\ TurnCallsLLM
       /\ ~parsed.raised
       /\ agent.send_outboxes.defined
       /\ TotalEntries(outbox) + Len(kept) <= MaxEntries
       /\ \A k \in 1..Len(ids) : ids[k] <= MaxId
       /\ outbox' = [outbox EXCEPT ![agent.name] = written.dir]
       /\ dir_mtime' = [dir_mtime EXCEPT ![agent.name] = written.mtime]

\* run_agent for firing[pos], _execute_tools raises: the outbox entries are
\* written, the tools before the offending call have run, and the exception
\* leaves run_agent before the memory loop and deduct_credits.
RunAgentToolError(parsed, turn_log) ==
    LET agent == firing[pos]
        tools == _execute_tools(agent, parsed.tool_calls)
    IN /\ TurnWritesOutbox(parsed)
       /\ tools.raised
       /\ tool_execs' = tool_execs + tools.execs
       /\ outcome' = "tool_error"
       /\ pc' = AfterTurnRaised(pos).pc
       /\ pos' = AfterTurnRaised(pos).pos
       /\ last' = turn_log
       /\ UNCHANGED <<agents, cur_tick, firing, driver, tick_arg, results, tick_file, credits,
                      memory, cleanup_log, config, now>>

\* run_agent for firing[pos], the memory loop raises: entries written, tools
\* run, the updates before the offending one applied, no credits deducted.
RunAgentMemoryError(parsed, turn_log) ==
    LET agent == firing[pos]
        tools == _execute_tools(agent, parsed.tool_calls)
        mem == ApplyMemoryUpdates(memory[agent.name], parsed.memory_updates)
    IN /\ TurnWritesOutbox(parsed)
       /\ ~tools.raised
       /\ mem.raised
       /\ tool_execs' = tool_execs + tools.execs
       /\ memory' = [memory EXCEPT ![agent.name] = mem.mem]
       /\ outcome' = "memory_error"
       /\ pc' = AfterTurnRaised(pos).pc
       /\ pos' = AfterTurnRaised(pos).pos
       /\ last' = turn_log
       /\ UNCHANGED <<agents, cur_tick, firing, driver, tick_arg, results, tick_file, credits,
                      cleanup_log, config, now>>

\* run_agent for firing[pos], to its return: outbox entries, tools, memory
\* updates, credits.
RunAgentCompletes(parsed, turn_log) ==
    LET agent == firing[pos]
        tools == _execute_tools(agent, parsed.tool_calls)
        mem == ApplyMemoryUpdates(memory[agent.name], parsed.memory_updates)
        info == get_agent_credits(credits, agent.name)
    IN /\ TurnWritesOutbox(parsed)
       /\ ~tools.raised
       /\ ~mem.raised
       /\ tool_execs' = tool_execs + tools.execs
       /\ memory' = [memory EXCEPT ![agent.name] = mem.mem]
       /\ credits' = deduct_credits(credits, agent.name, info.cost_per_action)
       /\ results' = (agent.name :> TurnCompleted(tools.results)) @@ results
       /\ pos' = pos + 1
       /\ last' = turn_log
       /\ UNCHANGED <<agents, cur_tick, firing, pc, driver, tick_arg, outcome, tick_file,
                      cleanup_log, config, now>>

\* run_forever's test after persist_tick: a max_turns is configured and the
\* tick just run has reached it. A variant stops only on the tick that equals
\* max_turns.
RunForeverStopsOnEqual(max_turns, tick) == max_turns.given /\ tick = max_turns.value

RunForeverStops(max_turns, tick) == max_turns.given /\ tick >= max_turns.value

\* The end of run_tick (cleanup_old_outbox_entries), then persist_tick in
\* run_once, or persist_tick and the max_turns test in run_forever.
FinishTick ==
    /\ pc = "agents" /\ pos > Len(firing)
    /\ outbox' = DirsAfterCleanup(outbox, cur_tick, config.max_outbox_age_ticks)
    /\ dir_mtime' = MtimesAfterCleanup(outbox, dir_mtime, cur_tick, config.max_outbox_age_ticks, now)
    /\ cleanup_log' = [called |-> TRUE, tick |-> cur_tick,
                       removed |-> cleanup_old_outbox_entries(outbox, cur_tick,
                                                              config.max_outbox_age_ticks)]
    /\ tick_file' = persist_tick(cur_tick + 1)
    /\ IF driver = "forever" /\ ~RunForeverStops(config.max_turns, cur_tick)
       THEN /\ pc' = "sleep"
            /\ cur_tick' = cur_tick + 1
            /\ outcome' = "ok"
       ELSE /\ pc' = "idle"
            /\ outcome' = "ok"
            /\ UNCHANGED cur_tick
    /\ UNCHANGED <<agents, firing, pos, driver, tick_arg, results, credits, memory, llm_calls,
                   tool_execs, config, files_cache, now, last>>

TickArgs == {SinceNone} \cup {Since(t) : t \in 0..MaxExplicitTick}

Next ==
    \/ \E arg \in TickArgs : RunOnce(arg)
    \/ RunForever
    \/ RunForeverNext
    \/ RunAgentSkipped
    \/ RunAgentLLMError
    \/ RunAgentAttributeError
    \/ \E parsed \in LLMOutputs : RunAgentParseError(parsed, last)
    \/ \E parsed \in LLMOutputs : RunAgentToolError(parsed, last)
    \/ \E parsed \in LLMOutputs : RunAgentMemoryError(parsed, last)
    \/ \E parsed \in LLMOutputs : RunAgentCompletes(parsed, last)
    \/ FinishTick

Spec == Init /\ [][Next]_vars

-----------------------------------------------------------------------------
(* ForeverSpec: one run_forever with a max_turns configured, from every tick file *)

\* org_config.json with max_turns set to an integer.
ForeverConfigs ==
    {[max_outbox_age_ticks |-> DefaultMaxOutboxAge, max_turns |-> MaxTurns(m)] :
        m \in 0..MaxEngineTick}

ForeverTickFiles ==
    {[state |-> "absent", current_tick |-> 0]} \cup {persist_tick(t) : t \in 0..MaxEngineTick}

ForeverInit ==
    /\ agents \in EngineAgentLists
    /\ cur_tick = 0
    /\ firing = <<>>
    /\ EngineIdle
    /\ config \in ForeverConfigs
    /\ tick_file \in ForeverTickFiles
    /\ credits \in Ledgers
    /\ memory = [a \in Dirs |-> {}]
    /\ StoreEmpty
    /\ last = [op |-> "none"]

\* run_forever is called once.
ForeverStart == driver = "none" /\ RunForever

ForeverNext ==
    \/ ForeverStart
    \/ RunForeverNext
    \/ RunAgentSkipped
    \/ RunAgentLLMError
    \/ RunAgentAttributeError
    \/ \E parsed \in LLMOutputs : RunAgentCompletes(parsed, last)
    \/ FinishTick

\* The engine is one sequential process: a step that can be taken is taken
\* (time.sleep returns, a turn returns or raises).
ForeverSpec == ForeverInit /\ [][ForeverNext]_vars /\ WF_vars(ForeverNext)

-----------------------------------------------------------------------------
(* TurnSpec: one run_once of one agent, over the replies a generator can give *)

\* The agent of TurnSpec: permitted tools file_list (registered) and
\* web_search (not registered).
TurnAgent(send) == Agent("alpha", 1, 0, send, <<"file_list", "web_search">>, <<"*">>)

TurnSends ==
    {SendMissing, SendNone, SendList(<<>>), SendList(<<"*">>), SendList(<<"bravo">>),
     SendList(<<"*", "bravo">>)}

\* The lists a reply is put together from.
TurnOutboxLists ==
    {<<>>,
     <<OutboxItem(ToAbsent)>>,
     <<OutboxItem(ToList(<<>>))>>,
     <<OutboxItem(ToOther)>>,
     <<OutboxItem(ToStr("bravo"))>>,
     <<OutboxItem(ToList(<<"bravo", "charlie">>))>>,
     <<OutboxItem(ToList(<<"charlie">>)), OutboxItem(ToList(<<"bravo">>))>>,
     <<NotAnObject, OutboxItem(ToList(<<"bravo">>))>>}

TurnToolLists ==
    {<<>>,
     <<ToolItem(ToolStr("file_list"), "mapping")>>,
     <<ToolItem(ToolStr("file_list"), "absent")>>,
     <<ToolItem(ToolStr("file_list"), "not_mapping")>>,
     <<ToolItem(ToolStr("shell"), "not_mapping")>>,
     <<ToolItem(ToolOther, "mapping")>>,
     <<ToolItem(ToolUnhashable, "mapping")>>,
     <<ToolItem(ToolStr("shell"), "mapping"), ToolItem(ToolStr("web_search"), "mapping"),
       ToolItem(ToolStr("file_list"), "mapping")>>,
     <<ToolItem(ToolStr("file_list"), "mapping"), NotAnObject>>}

TurnMemoryLists ==
    {<<>>,
     <<MemItem(TRUE, "goal", OpAbsent, 1)>>,
     <<MemItem(TRUE, "goal", OpStr("Write"), 1), MemItem(TRUE, "goal", OpStr("DELETE"), 0)>>,
     <<MemItem(TRUE, "goal", OpStr("append"), 1)>>,
     <<MemItem(TRUE, "", OpOther, 1), MemItem(FALSE, "", OpAbsent, 1), NotAnObject>>,
     <<MemItem(TRUE, "goal", OpOther, 1)>>,
     <<MemItem(TRUE, "goal", OpAbsent, 1), MemItem(TRUE, "plan", OpOther, 1)>>}

TurnReplies ==
    {Reply(o, t, m) : o \in TurnOutboxLists, t \in TurnToolLists, m \in TurnMemoryLists}
        \cup {ReplyOfForm("invalid"), ReplyOfForm("unloadable"), ReplyOfForm("not_object")}

TurnInit ==
    /\ agents \in {<<TurnAgent(send)>> : send \in TurnSends}
    /\ cur_tick = 0
    /\ firing = <<>>
    /\ EngineIdle
    /\ config = [max_outbox_age_ticks |-> DefaultMaxOutboxAge, max_turns |-> NoMaxTurns]
    /\ tick_file = [state |-> "absent", current_tick |-> 0]
    /\ credits \in {[a \in Dirs |-> IF a = "alpha" THEN CreditRecord(c) ELSE CreditRecord(MaxCredits)] :
                       c \in {0, MaxCredits}}
    /\ memory = [a \in Dirs |-> {}]
    /\ StoreEmpty
    /\ last = [op |-> "none"]

\* The one run_once of a behaviour of TurnSpec.
TurnStart ==
    /\ outcome = "none"
    /\ RunOnce(SinceNone)

\* What a turn of TurnSpec leaves in last: the reply call_llm returned.
TurnLog(reply) == [op |-> "run_agent", reply |-> reply]

TurnNext ==
    \/ TurnStart
    \/ RunAgentSkipped
    \/ RunAgentLLMError
    \/ RunAgentAttributeError
    \/ \E reply \in TurnReplies : RunAgentParseError(_parse_llm_output(reply), TurnLog(reply))
    \/ \E reply \in TurnReplies : RunAgentToolError(_parse_llm_output(reply), TurnLog(reply))
    \/ \E reply \in TurnReplies : RunAgentMemoryError(_parse_llm_output(reply), TurnLog(reply))
    \/ \E reply \in TurnReplies : RunAgentCompletes(_parse_llm_output(reply), TurnLog(reply))
    \/ FinishTick

TurnSpec == TurnInit /\ [][TurnNext]_vars

-----------------------------------------------------------------------------
(* PathSpec: one run_once of one agent whose reply holds memory keys with "/" *)

\* A memory key as the file system reads memory_dir / f"{key}.json": the
\* directory names before the last "/" and the stem after it. A key without
\* "/" has no segments.
PathKey(segments, stem) == [segments |-> segments, stem |-> stem]

\* The directory a relative path leads to from dir: ".." is the parent.
RECURSIVE WalkPath(_, _)
WalkPath(dir, segments) ==
    IF segments = <<>> THEN dir
    ELSE IF Head(segments) = ".."
    THEN WalkPath(IF dir = <<>> THEN dir ELSE SubSeq(dir, 1, Len(dir) - 1), Tail(segments))
    ELSE WalkPath(Append(dir, Head(segments)), Tail(segments))

\* get_memory_dir(base_path, agent_name) / f"{key}.json": what the file is in:
\* the agent's memory directory, the outbox directory of an agent, a directory
\* under an agent directory that does not exist ("missing"), or another place;
\* owner is the agent of that directory.
memory_file(agent_name, key) ==
    LET dir == WalkPath(<<"agents", agent_name, "memory">>, key.segments)
    IN IF dir = <<"agents", agent_name, "memory">>
       THEN [place |-> "memory", owner |-> agent_name, stem |-> key.stem]
       ELSE IF Len(dir) = 3 /\ dir[1] = "agents" /\ dir[2] \in Dirs /\ dir[3] = "outbox"
       THEN [place |-> "outbox", owner |-> dir[2], stem |-> key.stem]
       ELSE IF Len(dir) >= 2 /\ dir[1] = "agents" /\ dir[2] \notin Dirs
       THEN [place |-> "missing", owner |-> "", stem |-> key.stem]
       ELSE [place |-> "other", owner |-> "", stem |-> key.stem]

\* The files a turn's memory loop can reach: the outbox directories with their
\* mtimes, the agent's memory files, and whether its memory directory exists.
\* save_memory makes the memory directory, then opens the file for writing:
\* the file of that name is truncated and holds a memory record, which is no
\* outbox entry. open raises when the directory of the file is missing.
SavePath(fs, agent_name, key, value, clock) ==
    LET target == memory_file(agent_name, key)
        made == [fs EXCEPT !.mem_dir = TRUE]
    IN IF target.place = "memory"
       THEN [raised |-> FALSE, fs |-> [made EXCEPT !.mem = save_memory(fs.mem, target.stem, value)]]
       ELSE IF target.place = "outbox"
       THEN IF fs.mtimes[target.owner] = NoDir THEN [raised |-> TRUE, fs |-> made]
            ELSE [raised |-> FALSE,
                  fs |-> [made EXCEPT
                      !.dirs[target.owner] =
                          {f \in @ : ~(f.json /\ f.name = target.stem)}
                              \cup {NonEntryFile(target.stem, TRUE)},
                      !.mtimes[target.owner] =
                          IF target.stem \in NamesOf(fs.dirs[target.owner]) THEN @ ELSE clock]]
       ELSE [raised |-> target.place = "missing", fs |-> made]

\* delete_memory: memory_file.exists() is False when a directory on the path
\* is missing; a file that exists is unlinked.
DeletePath(fs, agent_name, key, clock) ==
    LET target == memory_file(agent_name, key)
    IN IF ~fs.mem_dir THEN fs
       ELSE IF target.place = "memory"
       THEN [fs EXCEPT !.mem = delete_memory(fs.mem, target.stem)]
       ELSE IF target.place = "outbox" /\ target.stem \in NamesOf(fs.dirs[target.owner])
       THEN [fs EXCEPT !.dirs[target.owner] = {f \in @ : ~(f.json /\ f.name = target.stem)},
                       !.mtimes[target.owner] = clock]
       ELSE fs

\* The memory loop of run_agent on those files, for updates whose keys are
\* truthy strings and whose ops are absent or strings.
RECURSIVE ApplyPathUpdates(_, _, _, _)
ApplyPathUpdates(fs, agent_name, updates, clock) ==
    IF updates = <<>> THEN [raised |-> FALSE, fs |-> fs]
    ELSE LET u == Head(updates)
             op == IF u.op.kind = "absent" \/ u.op.text = "" THEN "write" ELSE Lower(u.op.text)
         IN IF op = "delete"
            THEN ApplyPathUpdates(DeletePath(fs, agent_name, u.key, clock), agent_name,
                                  Tail(updates), clock)
            ELSE IF op # "write" THEN ApplyPathUpdates(fs, agent_name, Tail(updates), clock)
            ELSE LET saved == SavePath(fs, agent_name, u.key, u.value, clock)
                 IN IF saved.raised THEN saved
                    ELSE ApplyPathUpdates(saved.fs, agent_name, Tail(updates), clock)

\* What a turn of PathSpec leaves in last: the outbox directories as they were
\* when run_agent was entered, the agent and the tick.
PathLog(before, agent_name, tick) ==
    [op |-> "run_agent", before |-> before, agent |-> agent_name, tick |-> tick]

\* run_agent for firing[pos] with a reply whose outbox entries are
\* outbox_entries (sanitized) and whose memory updates are updates: entries
\* written, then the memory loop, then deduct_credits unless the loop raised.
RunAgentPathKeys(outbox_entries, updates) ==
    LET agent == firing[pos]
        kept == SelectSeq(outbox_entries,
                          LAMBDA e : EntryAllowed(e, AllowedTargets(agent.send_outboxes)))
        ids == FreshIds(outbox, Len(kept))
        entries == [k \in 1..Len(kept) |->
                       OutboxEntry(agent.name, cur_tick, ids[k], now, kept[k].recipients)]
        written == WriteAll(outbox[agent.name], dir_mtime[agent.name], entries, now)
        fs == [dirs |-> [outbox EXCEPT ![agent.name] = written.dir],
               mtimes |-> [dir_mtime EXCEPT ![agent.name] = written.mtime],
               mem |-> memory[agent.name],
               mem_dir |-> memory[agent.name] # {}]
        done == ApplyPathUpdates(fs, agent.name, updates, now)
        info == get_agent_credits(credits, agent.name)
    IN /\ TurnCallsLLM
       /\ agent.send_outboxes.defined
       /\ TotalEntries(outbox) + Len(kept) <= MaxEntries
       /\ \A k \in 1..Len(ids) : ids[k] <= MaxId
       /\ outbox' = done.fs.dirs
       /\ dir_mtime' = done.fs.mtimes
       /\ memory' = [memory EXCEPT ![agent.name] = done.fs.mem]
       /\ last' = PathLog(outbox, agent.name, cur_tick)
       /\ IF done.raised
          THEN /\ outcome' = "memory_error"
               /\ pc' = AfterTurnRaised(pos).pc
               /\ pos' = AfterTurnRaised(pos).pos
               /\ UNCHANGED <<credits, results>>
          ELSE /\ credits' = deduct_credits(credits, agent.name, info.cost_per_action)
               /\ results' = (agent.name :> TurnCompleted(<<>>)) @@ results
               /\ pos' = pos + 1
               /\ UNCHANGED <<pc, outcome>>
       /\ UNCHANGED <<agents, cur_tick, firing, driver, tick_arg, tick_file, tool_execs,
                      cleanup_log, config, now>>

\* The entries of earlier turns a behaviour of PathSpec starts with.
PathOldEntries ==
    {[a \in Dirs |-> IF a = "alpha" THEN xa ELSE IF a = "bravo" THEN xb ELSE {}] :
        xa \in {{}, {EntryFile(OutboxEntry("alpha", 0, 1, 1, RecipNone))}},
        xb \in {{}, {EntryFile(OutboxEntry("bravo", 0, 2, 1, RecipNone))}}}

\* The keys a reply of PathSpec names: a plain key, and the paths from the
\* memory directory to a file of the agent's own outbox, of another agent's
\* outbox and of an agent directory that does not exist.
PathKeys(dirs) ==
    {PathKey(<<>>, "goal")}
        \cup {PathKey(<<"..", "outbox">>, n) : n \in NamesOf(dirs["alpha"])}
        \cup {PathKey(<<"..", "..", "bravo", "outbox">>, n) : n \in NamesOf(dirs["bravo"])}
        \cup {PathKey(<<"..", "..", "nobody", "outbox">>, n) : n \in NamesOf(dirs["bravo"])}

PathUpdateLists(dirs) ==
    {<<>>}
        \cup {<<[key |-> k, value |-> 1, op |-> o]>> :
                 k \in PathKeys(dirs), o \in {OpAbsent, OpStr("delete"), OpStr("append")}}
        \cup {<<[key |-> PathKey(<<>>, "goal"), value |-> 1, op |-> OpAbsent],
                [key |-> k, value |-> 1, op |-> OpStr("delete")]>> : k \in PathKeys(dirs)}

PathInit ==
    /\ agents = <<TurnAgent(SendNone)>>
    /\ cur_tick = 0
    /\ firing = <<>>
    /\ EngineIdle
    /\ config = [max_outbox_age_ticks |-> DefaultMaxOutboxAge, max_turns |-> NoMaxTurns]
    /\ tick_file = [state |-> "absent", current_tick |-> 0]
    /\ credits \in {[a \in Dirs |-> IF a = "alpha" THEN CreditRecord(c) ELSE CreditRecord(MaxCredits)] :
                       c \in {0, MaxCredits}}
    /\ memory \in {[a \in Dirs |-> IF a = "alpha" THEN x ELSE {}] :
                      x \in {{}, {[key |-> "plan", value |-> 1]}}}
    /\ outbox \in PathOldEntries
    /\ dir_mtime = [a \in Dirs |-> IF outbox[a] = {} THEN NoDir ELSE 1]
    /\ files_cache = [a \in Dirs |-> NoCache]
    /\ now = 1
    /\ last = [op |-> "none"]

PathNext ==
    \/ TurnStart
    \/ RunAgentSkipped
    \/ \E o \in {<<>>, <<[recipients |-> RecipNone]>>}, u \in PathUpdateLists(outbox) :
           RunAgentPathKeys(o, u)
    \/ FinishTick

PathSpec == PathInit /\ [][PathNext]_vars

-----------------------------------------------------------------------------
(* RateSpec: the in-memory rate limiter of the API (lemming/api.py) *)

\* In RateSpec last holds the limiter's state: table is _request_timestamps, a
\* dict in insertion order given as a list of [key, stamps]; accepted lists the
\* requests that passed, each with its key and time; now is time.time().
MaxRateClients == 2    \* MAX_RATE_LIMIT_CLIENTS, 10000 in api.py
MaxRateLimit == 1      \* the limit of every rate_limiter drawn
MaxRateWindow == 2     \* the window of every rate_limiter drawn, in clock steps
MaxRateTime == 3       \* time.time() runs from 1 to MaxRateTime
MaxRequests == 4       \* requests made in a behaviour of RateSpec

RateClients == {"10.0.0.1", "10.0.0.2"}
RateScopes == {"messages", "engine_tick"}

\* f"{client_ip}:{scope}"
RateKey(client_ip, scope) == <<client_ip, scope>>

RateHas(table, key) == \E i \in 1..Len(table) : table[i].key = key
RateIndex(table, key) == CHOOSE i \in 1..Len(table) : table[i].key = key

\* The table after the "Initialize" block: a key that is not in it is added
\* at the end with no timestamps, after the entry inserted first was deleted
\* when the table is full.
RateInitialize(table, key) ==
    IF RateHas(table, key) THEN table
    ELSE Append(IF Len(table) >= MaxRateClients THEN Tail(table) ELSE table,
                [key |-> key, stamps |-> <<>>])

\* [t for t in stamps if now - t < window]
RateFilter(stamps, clock, window) == SelectSeq(stamps, LAMBDA t : clock - t < window)

\* The dependency rate_limiter(limit, window, scope) returns, called for a
\* request of client_ip at time clock: the table afterwards and the status
\* (429 for the HTTPException, 200 when the dependency returns).
rate_limiter(table, client_ip, scope, limit, window, clock) ==
    LET key == RateKey(client_ip, scope)
        initialized == RateInitialize(table, key)
        i == RateIndex(initialized, key)
        kept == RateFilter(initialized[i].stamps, clock, window)
        filtered == [initialized EXCEPT ![i].stamps = kept]
    IN IF Len(kept) >= limit
       THEN [status |-> 429, table |-> filtered]
       ELSE [status |-> 200, table |-> [filtered EXCEPT ![i].stamps = Append(kept, clock)]]

RateInit ==
    /\ StoreEmpty
    /\ EngineIdle
    /\ agents = <<>>
    /\ cur_tick = 0
    /\ firing = <<>>
    /\ credits = [a \in Dirs |-> NoCreditRecord]
    /\ config = [max_outbox_age_ticks |-> DefaultMaxOutboxAge, max_turns |-> NoMaxTurns]
    /\ memory = [a \in Dirs |-> {}]
    /\ tick_file = [state |-> "absent", current_tick |-> 0]
    /\ last = [op |-> "start", table |-> <<>>, accepted |-> <<>>, requests |-> 0,
               key |-> RateKey("", ""), status |-> 0, before |-> 0]

\* A request of client_ip to an endpoint guarded by rate_limiter(scope = scope).
RateRequest(client_ip, scope) ==
    LET r == rate_limiter(last.table, client_ip, scope, MaxRateLimit, MaxRateWindow, now)
        key == RateKey(client_ip, scope)
    IN /\ last.requests < MaxRequests
       /\ last' = [op |-> "request", table |-> r.table,
                   accepted |-> IF r.status = 200
                                THEN Append(last.accepted, [key |-> key, time |-> now])
                                ELSE last.accepted,
                   requests |-> last.requests + 1,
                   key |-> key, status |-> r.status,
                   before |-> IF RateHas(last.table, key)
                              THEN Len(last.table[RateIndex(last.table, key)].stamps) ELSE 0]
       /\ UNCHANGED <<schedVars, engineVars, outbox, dir_mtime, files_cache, now>>

\* Time passes between requests.
RateTick ==
    /\ now < MaxRateTime
    /\ now' = now + 1
    /\ UNCHANGED <<schedVars, engineVars, outbox, dir_mtime, files_cache, last>>

RateNext ==
    \/ \E c \in RateClients, sc \in RateScopes : RateRequest(c, sc)
    \/ RateTick

RateSpec == RateInit /\ [][RateNext]_vars

-----------------------------------------------------------------------------
(* OrgSpec: the module-level caches of lemming/org.py, used with two base paths *)

\* In OrgSpec last holds the state of org.py and of the files it reads:
\* files[b] is lemming/config under base path b (credits_left of the one agent
\* in credits.json, the label in org_config.json), config_dir is _config_dir,
\* credits_cache and org_config_cache are the two caches (loaded = FALSE for
\* None).
BasePaths == {"one", "two"}
NotLoaded == [loaded |-> FALSE, value |-> 0]
Loaded(value) == [loaded |-> TRUE, value |-> value]

\* set_config_dir(base_path): _config_dir follows every call.
set_config_dir(org, base_path) == [org EXCEPT !.config_dir = base_path]

\* _load_json(filename): the file under _config_dir.
_load_json(org, filename) ==
    IF filename = "credits.json" THEN org.files[org.config_dir].credits
    ELSE org.files[org.config_dir].label

\* get_credits(base_path): the cache is filled from _config_dir when it is
\* None and returned whatever base path it was filled for.
get_credits(org, base_path) ==
    LET dir_set == set_config_dir(org, base_path)
    IN IF dir_set.credits_cache.loaded THEN dir_set
       ELSE [dir_set EXCEPT !.credits_cache = Loaded(_load_json(dir_set, "credits.json"))]

\* get_org_config(base_path)
get_org_config(org, base_path) ==
    LET dir_set == set_config_dir(org, base_path)
    IN IF dir_set.org_config_cache.loaded THEN dir_set
       ELSE [dir_set EXCEPT !.org_config_cache = Loaded(_load_json(dir_set, "org_config.json"))]

\* save_credits(base_path): path is taken from _config_dir as it is before
\* get_credits(base_path) sets it, and what get_credits returns is written.
save_credits(org, base_path) ==
    LET got == get_credits(org, base_path)
    IN [got EXCEPT !.files[org.config_dir].credits = got.credits_cache.value]

\* reset_caches()
reset_caches(org) == [org EXCEPT !.credits_cache = NotLoaded, !.org_config_cache = NotLoaded]

OrgLog(op, base_path, ret, org) ==
    [op |-> op, base |-> base_path, ret |-> ret, files |-> org.files,
     config_dir |-> org.config_dir, credits_cache |-> org.credits_cache,
     org_config_cache |-> org.org_config_cache]

\* After import and a first call for some base path, with the credits of the
\* two base paths drawn.
OrgInit ==
    /\ StoreEmpty
    /\ EngineIdle
    /\ agents = <<>>
    /\ cur_tick = 0
    /\ firing = <<>>
    /\ credits = [a \in Dirs |-> NoCreditRecord]
    /\ config = [max_outbox_age_ticks |-> DefaultMaxOutboxAge, max_turns |-> NoMaxTurns]
    /\ memory = [a \in Dirs |-> {}]
    /\ tick_file = [state |-> "absent", current_tick |-> 0]
    /\ \E c1 \in 0..MaxCredits, c2 \in 0..MaxCredits, d \in BasePaths :
           last = OrgLog("reset_caches", d, 0,
                         [files |-> [b \in BasePaths |->
                                        [credits |-> IF b = "one" THEN c1 ELSE c2, label |-> b]],
                          config_dir |-> d, credits_cache |-> NotLoaded,
                          org_config_cache |-> NotLoaded])

OrgFrame == UNCHANGED <<schedVars, engineVars, outbox, dir_mtime, files_cache, now>>

OrgGetCredits(base_path) ==
    /\ last' = OrgLog("get_credits", base_path, get_credits(last, base_path).credits_cache.value,
                      get_credits(last, base_path))
    /\ OrgFrame

OrgGetOrgConfig(base_path) ==
    /\ last' = OrgLog("get_org_config", base_path,
                      get_org_config(last, base_path).org_config_cache.value,
                      get_org_config(last, base_path))
    /\ OrgFrame

OrgSaveCredits(base_path) ==
    /\ last' = OrgLog("save_credits", base_path, 0, save_credits(last, base_path))
    /\ OrgFrame

OrgResetCaches ==
    /\ last' = OrgLog("reset_caches", last.config_dir, 0, reset_caches(last))
    /\ OrgFrame

OrgNext ==
    \/ \E b \in BasePaths : OrgGetCredits(b)
    \/ \E b \in BasePaths : OrgGetOrgConfig(b)
    \/ \E b \in BasePaths : OrgSaveCredits(b)
    \/ OrgResetCaches

OrgSpec == OrgInit /\ [][OrgNext]_vars

-----------------------------------------------------------------------------
(* BreakerSpec: providers.CircuitBreaker, one instance called from one thread *)

\* In BreakerSpec last holds the breaker (state, failure_count,
\* last_failure_time) and the record of the last call; now is time.time().
MaxThreshold == 2     \* failure_threshold of the breaker
MaxRecovery == 2      \* recovery_timeout of the breaker, in clock steps
MaxBreakerTime == 4   \* time.time() runs from 1 to MaxBreakerTime
MaxCalls == 5         \* calls made in a behaviour of BreakerSpec

\* last_failure_time: None or a time.
NoFailure == [set |-> FALSE, time |-> 0]
FailureAt(t) == [set |-> TRUE, time |-> t]

\* CircuitBreaker.__init__
CircuitBreaker == [state |-> "CLOSED", failure_count |-> 0, last_failure_time |-> NoFailure]

\* The test call makes in the OPEN state: a last failure is recorded and
\* recovery_timeout has passed since. A variant waits for more than the
\* timeout.
RecoveryDueLater(last_failure_time, clock, recovery_timeout) ==
    last_failure_time.set /\ clock - last_failure_time.time > recovery_timeout

RecoveryDue(last_failure_time, clock, recovery_timeout) ==
    last_failure_time.set /\ clock - last_failure_time.time >= recovery_timeout

\* What func does when it is called: it returns ("ok"), raises an Exception
\* ("error"), or raises a BaseException that is no Exception ("interrupt":
\* KeyboardInterrupt, SystemExit), which `except Exception` lets pass.
FuncOutcomes == {"ok", "error", "interrupt"}

\* CircuitBreaker.call(func) at time clock when func would do func_outcome: the
\* breaker afterwards, whether func was invoked, and what call raised
\* ("none", "open" for the RuntimeError, or the outcome of func).
breaker_call(cb, func_outcome, clock, failure_threshold, recovery_timeout) ==
    LET due == RecoveryDue(cb.last_failure_time, clock, recovery_timeout)
        entered == IF cb.state = "OPEN" /\ due THEN [cb EXCEPT !.state = "HALF_OPEN"] ELSE cb
        count == entered.failure_count + 1
    IN IF cb.state = "OPEN" /\ ~due
       THEN [cb |-> cb, invoked |-> 0, raised |-> "open"]
       ELSE IF func_outcome = "ok"
       THEN [cb |-> IF entered.state = "HALF_OPEN"
                    THEN [entered EXCEPT !.state = "CLOSED", !.failure_count = 0]
                    ELSE entered,
             invoked |-> 1, raised |-> "none"]
       ELSE IF func_outcome = "error"
       THEN [cb |-> [state |-> IF count >= failure_threshold \/ entered.state = "HALF_OPEN"
                               THEN "OPEN" ELSE entered.state,
                     failure_count |-> count,
                     last_failure_time |-> FailureAt(clock)],
             invoked |-> 1, raised |-> "error"]
       ELSE [cb |-> entered, invoked |-> 1, raised |-> "interrupt"]

\* The outcomes of the calls that reached func, the newest last, cut to the
\* last failure_threshold of them.
RecentCalls(recent, func_outcome, failure_threshold) ==
    LET all == Append(recent, func_outcome)
    IN IF Len(all) > failure_threshold
       THEN SubSeq(all, Len(all) - failure_threshold + 1, Len(all)) ELSE all

BreakerInit ==
    /\ StoreEmpty
    /\ EngineIdle
    /\ agents = <<>>
    /\ cur_tick = 0
    /\ firing = <<>>
    /\ credits = [a \in Dirs |-> NoCreditRecord]
    /\ config = [max_outbox_age_ticks |-> DefaultMaxOutboxAge, max_turns |-> NoMaxTurns]
    /\ memory = [a \in Dirs |-> {}]
    /\ tick_file = [state |-> "absent", current_tick |-> 0]
    /\ last = [op |-> "init", cb |-> CircuitBreaker, before |-> CircuitBreaker,
               outcome |-> "ok", at |-> 0, invoked |-> 0, raised |-> "none", recent |-> <<>>,
               calls |-> 0]

\* circuit_breaker.call(func) at the current time.
BreakerCall(func_outcome) ==
    LET r == breaker_call(last.cb, func_outcome, now, MaxThreshold, MaxRecovery)
    IN /\ last.calls < MaxCalls
       /\ last' = [op |-> "call", cb |-> r.cb, before |-> last.cb, outcome |-> func_outcome,
                   at |-> now,
                   invoked |-> r.invoked, raised |-> r.raised,
                   recent |-> IF r.invoked = 1
                              THEN RecentCalls(last.recent, func_outcome, MaxThreshold)
                              ELSE last.recent,
                   calls |-> last.calls + 1]
       /\ UNCHANGED <<schedVars, engineVars, outbox, dir_mtime, files_cache, now>>

\* Time passes between calls.
BreakerTick ==
    /\ now < MaxBreakerTime
    /\ now' = now + 1
    /\ UNCHANGED <<schedVars, engineVars, outbox, dir_mtime, files_cache, last>>

BreakerNext ==
    \/ \E o \in FuncOutcomes : BreakerCall(o)
    \/ BreakerTick

BreakerSpec == BreakerInit /\ [][BreakerNext]_vars

-----------------------------------------------------------------------------
(* FenceSpec: _strip_fences as a pure function of the reply text *)

MaxLines == 4   \* lines of a reply text

\* A text is given by raw.split("\n"), a non-empty list of lines, each a list
\* of characters; "\n".join(lines) of a non-empty list is the text with these
\* lines, and of [] the empty string, whose split is one empty line.
JoinLines(lines) == IF lines = <<>> THEN << <<>> >> ELSE lines

\* line.startswith("```")
CharBacktick == 96
StartsWithFence(line) ==
    Len(line) >= 3 /\ SubSeq(line, 1, 3) = <<CharBacktick, CharBacktick, CharBacktick>>

\* The loop of _strip_fences from line k on: the body collected.
RECURSIVE FenceLoop(_, _, _, _)
FenceLoop(lines, k, in_block, body) ==
    IF k > Len(lines) THEN body
    ELSE IF StartsWithFence(lines[k])
    THEN IF ~in_block THEN FenceLoop(lines, k + 1, TRUE, body) ELSE body
    ELSE FenceLoop(lines, k + 1, in_block, IF in_block THEN Append(body, lines[k]) ELSE body)

\* _strip_fences(raw): "\n".join(body) if body else raw
_strip_fences(raw) ==
    LET body == FenceLoop(raw, 1, FALSE, <<>>)
    IN IF body # <<>> THEN JoinLines(body) ELSE raw

\* The lines drawn, as character codes: empty, "a", a fence without and with
\* a language ("j"), a fence after a space, two backticks.
FenceLines ==
    {<<>>, <<97>>, <<CharBacktick, CharBacktick, CharBacktick>>,
     <<CharBacktick, CharBacktick, CharBacktick, 106>>,
     <<32, CharBacktick, CharBacktick, CharBacktick>>,
     <<CharBacktick, CharBacktick>>}

FenceTexts == UNION {[1..n -> FenceLines] : n \in 1..MaxLines}

FenceStrip(raw) ==
    /\ last.op = "none"
    /\ last' = [op |-> "_strip_fences", raw |-> raw, ret |-> _strip_fences(raw)]
    /\ UNCHANGED <<schedVars, engineVars, outbox, dir_mtime, files_cache, now>>

FenceNext == \E raw \in FenceTexts : FenceStrip(raw)

FenceSpec == StoreInit /\ [][FenceNext]_vars

-----------------------------------------------------------------------------
(* StepSpec: one run_tick, each turn taken statement by statement *)

\* The steps of run_agent in the order of its statements.
StepOrder == <<"credit_check", "call_llm", "outbox", "tools", "memory", "deduct">>
StepRank(step) == CHOOSE i \in 1..Len(StepOrder) : StepOrder[i] = step

\* Where run_tick stands after a step of the turn at position p returned
\* normally: run_agent goes on to its next statement, and the loop over
\* firing_agents moves on when run_agent has returned. A variant starts the
\* next turn once the outbox entries of this one are written.
StepAfterInterleaved(p, step) ==
    IF step \in {"outbox", "deduct"} THEN [pos |-> p + 1, pc |-> "credit_check"]
    ELSE [pos |-> p, pc |-> StepOrder[StepRank(step) + 1]]

StepAfter(p, step) ==
    IF step = "deduct" THEN [pos |-> p + 1, pc |-> "credit_check"]
    ELSE [pos |-> p, pc |-> StepOrder[StepRank(step) + 1]]

\* The log of StepSpec: the steps begun so far, each with the position of its
\* turn, and what the running turn carries from statement to statement.
StepLog(trace, parsed, tool_results) ==
    [op |-> "steps", trace |-> trace, parsed |-> parsed, tool_results |-> tool_results]
StepTrace(step) == Append(last.trace, [pos |-> pos, step |-> step])

StepInit ==
    /\ agents \in EngineAgentLists
    /\ cur_tick = 0
    /\ firing = <<>>
    /\ EngineIdle
    /\ config = [max_outbox_age_ticks |-> DefaultMaxOutboxAge, max_turns |-> NoMaxTurns]
    /\ tick_file = [state |-> "absent", current_tick |-> 0]
    /\ credits \in Ledgers
    /\ memory = [a \in Dirs |-> {}]
    /\ StoreEmpty
    /\ last = [op |-> "none"]

\* run_tick(base_path, 1) up to its loop.
StepBegin ==
    /\ pc = "idle" /\ outcome = "none"
    /\ cur_tick' = 1
    /\ firing' = get_firing_agents(agents, 1)
    /\ pos' = 1
    /\ pc' = "credit_check"
    /\ outcome' = "running"
    /\ credits' = _ensure_credit_entry(agents, credits)
    /\ last' = StepLog(<<>>, ParseDefault, <<>>)
    /\ UNCHANGED <<agents, driver, tick_arg, results, tick_file, memory, outbox, dir_mtime,
                   files_cache, now, llm_calls, tool_execs, cleanup_log, config>>

\* get_agent_credits and the credits_left <= 0 test: the turn returns skipped,
\* or goes on.
StepCreditCheck ==
    /\ pc = "credit_check" /\ pos <= Len(firing)
    /\ IF NoCredits(get_agent_credits(credits, firing[pos].name).credits_left)
       THEN /\ results' = (firing[pos].name :> TurnSkipped) @@ results
            /\ pos' = pos + 1
            /\ pc' = "credit_check"
       ELSE /\ pos' = StepAfter(pos, "credit_check").pos
            /\ pc' = StepAfter(pos, "credit_check").pc
            /\ UNCHANGED results
    /\ last' = StepLog(StepTrace("credit_check"), ParseDefault, <<>>)
    /\ UNCHANGED <<agents, cur_tick, firing, driver, tick_arg, outcome, tick_file, credits, memory,
                   outbox, dir_mtime, files_cache, now, llm_calls, tool_execs, cleanup_log, config>>

\* _build_prompt, call_llm and _parse_llm_output; call_llm raises, or
\* _parse_llm_output does, or the parsed reply is at hand.
StepCallLLM(raises, reply) ==
    /\ pc = "call_llm"
    /\ files_cache' = CacheAfterReadMulti(outbox, dir_mtime, files_cache,
                                          ReadableOutboxes(firing[pos], outbox), PromptReadLimit)
    /\ llm_calls' = LLMCallsAfter(llm_calls)
    /\ last' = StepLog(StepTrace("call_llm"), _parse_llm_output(reply), <<>>)
    /\ IF raises \/ _parse_llm_output(reply).raised
       THEN /\ outcome' = IF raises THEN "llm_error" ELSE "parse_error"
            /\ pc' = AfterTurnRaised(pos).pc
            /\ pos' = AfterTurnRaised(pos).pos
       ELSE /\ pos' = StepAfter(pos, "call_llm").pos
            /\ pc' = StepAfter(pos, "call_llm").pc
            /\ UNCHANGED outcome
    /\ UNCHANGED <<agents, cur_tick, firing, driver, tick_arg, results, tick_file, credits, memory,
                   outbox, dir_mtime, now, tool_execs, cleanup_log, config>>

\* agent.permissions.send_outboxes and the loop over the outbox entries.
StepOutbox ==
    LET agent == firing[pos]
        kept == KeptEntries(agent, last.parsed)
        ids == FreshIds(outbox, Len(kept))
        entries == [k \in 1..Len(kept) |->
                       OutboxEntry(agent.name, cur_tick, ids[k], now, kept[k].recipients)]
        written == WriteAll(outbox[agent.name], dir_mtime[agent.name], entries, now)
    IN /\ pc = "outbox"
       /\ last' = StepLog(StepTrace("outbox"), last.parsed, <<>>)
       /\ IF ~agent.send_outboxes.defined
          THEN /\ outcome' = "attribute_error"
               /\ pc' = AfterTurnRaised(pos).pc
               /\ pos' = AfterTurnRaised(pos).pos
               /\ UNCHANGED <<outbox, dir_mtime>>
          ELSE /\ TotalEntries(outbox) + Len(kept) <= MaxEntries
               /\ \A k \in 1..Len(ids) : ids[k] <= MaxId
               /\ outbox' = [outbox EXCEPT ![agent.name] = written.dir]
               /\ dir_mtime' = [dir_mtime EXCEPT ![agent.name] = written.mtime]
               /\ pos' = StepAfter(pos, "outbox").pos
               /\ pc' = StepAfter(pos, "outbox").pc
               /\ UNCHANGED outcome
       /\ UNCHANGED <<agents, cur_tick, firing, driver, tick_arg, results, tick_file, credits,
                      memory, files_cache, now, llm_calls, tool_execs, cleanup_log, config>>

\* _execute_tools(base_path, agent, tool_calls, tick)
StepTools ==
    LET tools == _execute_tools(firing[pos], last.parsed.tool_calls)
    IN /\ pc = "tools"
       /\ tool_execs' = tool_execs + tools.execs
       /\ last' = StepLog(StepTrace("tools"), last.parsed, tools.results)
       /\ IF tools.raised
          THEN /\ outcome' = "tool_error"
               /\ pc' = AfterTurnRaised(pos).pc
               /\ pos' = AfterTurnRaised(pos).pos
          ELSE /\ pos' = StepAfter(pos, "tools").pos
               /\ pc' = StepAfter(pos, "tools").pc
               /\ UNCHANGED outcome
       /\ UNCHANGED <<agents, cur_tick, firing, driver, tick_arg, results, tick_file, credits,
                      memory, outbox, dir_mtime, files_cache, now, llm_calls, cleanup_log, config>>

\* The loop over the memory updates.
StepMemory ==
    LET mem == ApplyMemoryUpdates(memory[firing[pos].name], last.parsed.memory_updates)
    IN /\ pc = "memory"
       /\ memory' = [memory EXCEPT ![firing[pos].name] = mem.mem]
       /\ last' = StepLog(StepTrace("memory"), last.parsed, last.tool_results)
       /\ IF mem.raised
          THEN /\ outcome' = "memory_error"
               /\ pc' = AfterTurnRaised(pos).pc
               /\ pos' = AfterTurnRaised(pos).pos
          ELSE /\ pos' = StepAfter(pos, "memory").pos
               /\ pc' = StepAfter(pos, "memory").pc
               /\ UNCHANGED outcome
       /\ UNCHANGED <<agents, cur_tick, firing, driver, tick_arg, results, tick_file, credits,
                      outbox, dir_mtime, files_cache, now, llm_calls, tool_execs, cleanup_log,
                      config>>

\* deduct_credits and the return of run_agent.
StepDeduct ==
    LET agent == firing[pos]
    IN /\ pc = "deduct"
       /\ credits' = deduct_credits(credits, agent.name,
                                    get_agent_credits(credits, agent.name).cost_per_action)
       /\ results' = (agent.name :> TurnCompleted(last.tool_results)) @@ results
       /\ last' = StepLog(StepTrace("deduct"), ParseDefault, <<>>)
       /\ pos' = StepAfter(pos, "deduct").pos
       /\ pc' = StepAfter(pos, "deduct").pc
       /\ UNCHANGED <<agents, cur_tick, firing, driver, tick_arg, outcome, tick_file, memory,
                      outbox, dir_mtime, files_cache, now, llm_calls, tool_execs, cleanup_log,
                      config>>

\* The end of run_tick: cleanup_old_outbox_entries and the return.
StepFinish ==
    /\ pc = "credit_check" /\ pos > Len(firing)
    /\ outbox' = DirsAfterCleanup(outbox, cur_tick, config.max_outbox_age_ticks)
    /\ dir_mtime' = MtimesAfterCleanup(outbox, dir_mtime, cur_tick, config.max_outbox_age_ticks, now)
    /\ cleanup_log' = [called |-> TRUE, tick |-> cur_tick,
                       removed |-> cleanup_old_outbox_entries(outbox, cur_tick,
                                                              config.max_outbox_age_ticks)]
    /\ pc' = "idle"
    /\ outcome' = "ok"
    /\ UNCHANGED <<agents, cur_tick, firing, pos, driver, tick_arg, results, tick_file, credits,
                   memory, files_cache, now, llm_calls, tool_execs, config, last>>

StepNext ==
    \/ StepBegin
    \/ StepCreditCheck
    \/ \E raises \in BOOLEAN, reply \in LLMReplies : StepCallLLM(raises, reply)
    \/ StepOutbox
    \/ StepTools
    \/ StepMemory
    \/ StepDeduct
    \/ StepFinish

StepSpec == StepInit /\ [][StepNext]_vars

-----------------------------------------------------------------------------
(* ParseSpec: _parse_llm_output applied to drawn replies *)

ParseOutboxFields ==
    {FieldAbsent, FieldNull, FieldOther, FieldList(<<>>),
     FieldList(<<NotAnObject, OutboxItem(ToOther), OutboxItem(ToStr("bravo"))>>)}

ParseToolFields ==
    {FieldAbsent, FieldNull, FieldOther,
     FieldList(<<ToolItem(ToolStr("ping"), "absent"), NotAnObject>>)}

ParseMemoryFields ==
    {FieldAbsent, FieldNull, FieldOther,
     FieldList(<<MemItem(FALSE, "", OpAbsent, 1), NotAnObject>>),
     FieldList(<<MemItem(TRUE, "foo", OpAbsent, 1), NotAnObject, MemItem(TRUE, "", OpOther, 0)>>)}

ParseNotes == {NotesAbsent, NotesStr("ok"), NotesOther("5"), NotesOther("null")}

ParseReplies ==
    {ReplyObject(o, t, m, n, x) :
        o \in ParseOutboxFields, t \in ParseToolFields, m \in ParseMemoryFields,
        n \in ParseNotes, x \in BOOLEAN}
        \cup {ReplyOfForm("invalid"), ReplyOfForm("unloadable"), ReplyOfForm("not_object")}

\* One behaviour of ParseSpec is one call.
ParseReply(reply) ==
    /\ last.op = "none"
    /\ last' = [op |-> "_parse_llm_output", reply |-> reply, ret |-> _parse_llm_output(reply)]

ParseNext == \E reply \in ParseReplies : ParseReply(reply)

ParseSpec ==
    StoreInit /\ [][ParseNext /\ UNCHANGED <<schedVars, engineVars, outbox, dir_mtime,
                                              files_cache, now>>]_vars

-----------------------------------------------------------------------------
(* ClockSpec: load_tick and persist_tick over the states of tick.json *)

MaxClockTick == 6   \* ticks 0..MaxClockTick are persisted in ClockSpec

\* tick_file.exists() is called outside the try block: Path.exists() returns
\* False for a missing path and lets the other errors of stat() through, so
\* load_tick raises PermissionError when the directory of tick.json may not be
\* searched ("no_access"). What open, json.load, data.get and int raise is
\* caught.
load_tick_raises(tf) == tf.state = "no_access"

\* persist_tick(base_path, tick) on a tick file tf: open("w") raises in a
\* directory that may not be searched.
persist_tick_raises(tf) == tf.state = "no_access"

\* tick.json: absent; a record with current_tick; a file open() refuses
\* ("unreadable"); text json.load refuses or that is no record with an integer
\* ("corrupt"); a record without current_tick ("no_key"); a file in a directory
\* that may not be searched ("no_access").
ClockFiles ==
    {[state |-> st, current_tick |-> 0] :
        st \in {"absent", "unreadable", "corrupt", "no_key", "no_access"}}
        \cup {persist_tick(t) : t \in 0..MaxClockTick}

ClockInit ==
    /\ StoreEmpty
    /\ EngineIdle
    /\ agents = <<>>
    /\ cur_tick = 0
    /\ firing = <<>>
    /\ credits = [a \in Dirs |-> NoCreditRecord]
    /\ config = [max_outbox_age_ticks |-> DefaultMaxOutboxAge, max_turns |-> NoMaxTurns]
    /\ memory = [a \in Dirs |-> {}]
    /\ last = [op |-> "none"]
    /\ tick_file \in ClockFiles

ClockLoad ==
    /\ last' = [op |-> "load_tick", file |-> tick_file, tick |-> 0,
                raised |-> load_tick_raises(tick_file),
                ret |-> IF load_tick_raises(tick_file) THEN 0 ELSE load_tick(tick_file)]
    /\ UNCHANGED tick_file

ClockPersist(t) ==
    /\ last' = [op |-> "persist_tick", file |-> tick_file, tick |-> t,
                raised |-> persist_tick_raises(tick_file), ret |-> 0]
    /\ tick_file' = IF persist_tick_raises(tick_file) THEN tick_file ELSE persist_tick(t)

ClockNext ==
    \/ ClockLoad
    \/ \E t \in 0..MaxClockTick : ClockPersist(t)

ClockSpec ==
    ClockInit /\ [][ClockNext /\ UNCHANGED <<schedVars, pos, pc, driver, tick_arg, outcome,
                                             results, credits, memory, llm_calls, tool_execs,
                                             cleanup_log, config, outbox, dir_mtime,
                                             files_cache, now>>]_vars

-----------------------------------------------------------------------------
(* MemorySpec: the memory loop of run_agent applied to drawn update lists *)

MaxUpdates == 2   \* memory updates in one reply

MemoryKeys == {"goal", "plan", "./goal", "sub/goal"}
MemoryOps == {OpAbsent, OpStr("write"), OpStr("delete"), OpStr("append"), OpStr("DELETE"),
              OpStr("")}

\* What _sanitize_memory passes on for a drawn update.
MemoryUpdates == {[key |-> k, value |-> v, op |-> op] : k \in MemoryKeys, v \in 1..2, op \in MemoryOps}

MemoryUpdateLists == UNION {[1..n -> MemoryUpdates] : n \in 1..MaxUpdates}

\* The memory directory before the turn.
MemoryDirs == {{}, {[key |-> "goal", value |-> 0]}, {[key |-> "goal", value |-> 0], [key |-> "plan", value |-> 0]}}

MemoryInit ==
    /\ StoreEmpty
    /\ EngineIdle
    /\ agents = <<>>
    /\ cur_tick = 0
    /\ firing = <<>>
    /\ tick_file = [state |-> "absent", current_tick |-> 0]
    /\ credits = [a \in Dirs |-> NoCreditRecord]
    /\ config = [max_outbox_age_ticks |-> DefaultMaxOutboxAge, max_turns |-> NoMaxTurns]
    /\ last = [op |-> "none"]
    /\ memory \in {[a \in Dirs |-> IF a = "alpha" THEN d ELSE {}] : d \in MemoryDirs}

\* One behaviour of MemorySpec is one run of the loop, for alpha.
MemoryApply(updates) ==
    /\ last.op = "none"
    /\ memory' = [memory EXCEPT !["alpha"] = ApplyMemoryUpdates(memory["alpha"], updates).mem]
    /\ last' = [op |-> "memory_updates", before |-> memory["alpha"], updates |-> updates,
                raised |-> ApplyMemoryUpdates(memory["alpha"], updates).raised]

MemoryNext == \E updates \in MemoryUpdateLists : MemoryApply(updates)

MemorySpec ==
    MemoryInit /\ [][MemoryNext /\ UNCHANGED <<schedVars, pos, pc, driver, tick_arg, outcome,
                                               results, tick_file, credits, llm_calls, tool_execs,
                                               cleanup_log, config, outbox, dir_mtime,
                                               files_cache, now>>]_vars

-----------------------------------------------------------------------------
(* Properties of the scheduling functions (SchedSpec) *)

\* C1: for an agent with run_every_n_ticks N >= 1 and any integer
\* phase_offset, should_run(agent, T) is true exactly when
\* T mod N = phase_offset mod N.
C1_ShouldRunIffTickMatchesPhase ==
    (last.op = "should_run" /\ last.agent.run_every_n_ticks >= 1) =>
        (last.ret <=> PyMod(last.tick, last.agent.run_every_n_ticks)
                          = PyMod(last.agent.phase_offset, last.agent.run_every_n_ticks))

\* C2: get_firing_agents(agents, T) returns exactly the agents for which
\* should_run holds at T, in ascending order of (fire_point, name), and
\* returns that same list for every ordering of the input list.
C2_FiringExactSortedOrderFree ==
    last.op = "get_firing_agents" =>
        /\ SeqToSet(firing) = {a \in SeqToSet(agents) : should_run(a, cur_tick)}
        /\ Len(firing) = Cardinality(SeqToSet(firing))
        /\ \A i, j \in 1..Len(firing) :
               i < j =>
                 LET p == compute_fire_point(firing[i])
                     q == compute_fire_point(firing[j])
                 IN \/ FpLess(p, q)
                    \/ FpEq(p, q) /\ NameRank(firing[i].name) < NameRank(firing[j].name)
        /\ \A perm \in Permutations(1..Len(agents)) :
               get_firing_agents([k \in 1..Len(agents) |-> agents[perm[k]]], cur_tick) = firing

\* C2 witness: two agents with the same fire point fire in the same tick and
\* the input list held them in the opposite order.
C2_Witness ==
    /\ last.op = "get_firing_agents"
    /\ Len(firing) = 2
    /\ firing[1].run_every_n_ticks >= 2
    /\ FpEq(compute_fire_point(firing[1]), compute_fire_point(firing[2]))
    /\ agents = <<firing[2], firing[1]>>

-----------------------------------------------------------------------------
(* Properties of the engine (Spec) *)

\* C3: when an agent's credits_left is <= 0 as its turn starts, the turn is
\* recorded as skipped and makes no generator call, writes no outbox entry,
\* executes no tool, changes no memory key and deducts no credits.
C3_NoCreditsTurnIsSkipped ==
    [][(/\ pc = "agents" /\ pos <= Len(firing)
        /\ credits[firing[pos].name].credits_left <= 0
        /\ (pos' # pos \/ outcome' # outcome \/ pc' # pc))
       => /\ pos' = pos + 1
          /\ results' = (firing[pos].name :> TurnSkipped) @@ results
          /\ llm_calls' = llm_calls
          /\ outbox' = outbox
          /\ tool_execs' = tool_execs
          /\ memory' = memory
          /\ credits' = credits]_vars

\* C3 witness: the first agent of a tick was skipped with a balance of 0.
C3_Witness ==
    /\ pc = "agents"
    /\ pos = 2
    /\ results[firing[1].name].status = "skipped"
    /\ credits[firing[1].name].credits_left = 0

\* C4: when the generator call raises in an agent's turn, the exception leaves
\* run_agent and run_tick (no later agent runs, no cleanup, the clock is not
\* persisted), exactly one generator call was made for the turn, and the
\* agent's outbox, memory and credits are unchanged and no tool was executed.
C4_GeneratorErrorPropagatesNoEffects ==
    [][(outcome = "running" /\ outcome' = "llm_error")
       => /\ pc' = "idle"
          /\ llm_calls' = llm_calls + 1
          /\ results' = results
          /\ outbox' = outbox
          /\ dir_mtime' = dir_mtime
          /\ memory' = memory
          /\ credits' = credits
          /\ tool_execs' = tool_execs
          /\ cleanup_log' = cleanup_log
          /\ tick_file' = tick_file]_vars

\* C4 witness: a funded agent's generator call raised.
C4_Witness ==
    /\ outcome = "llm_error"
    /\ pc = "idle"
    /\ llm_calls >= 1
    /\ credits[firing[pos].name].credits_left > 0

\* C5 as stated: when a turn raises during run_once or a run_forever
\* iteration for tick t, the persisted clock is unchanged, so the next
\* run_once without an explicit tick runs tick t again.
C5_FailedTickIsRunAgain ==
    [][(/\ outcome \in FailedOutcomes
        /\ pc = "idle" /\ pc' = "agents"
        /\ driver' = "once" /\ ~tick_arg'.given)
       => cur_tick' = cur_tick]_vars

\* C5 amended: no step that starts a tick, runs a turn or fails a turn changes
\* the persisted clock; and the run_once without an explicit tick that follows
\* a failed tick t runs the persisted tick, which is t when the failed call
\* took its tick from the persisted clock (run_once without a tick, or
\* run_forever).
C5_ClockPersistedAfterTickOnly ==
    [][/\ (pc' = "agents" \/ outcome' \in FailedOutcomes)
          => load_tick(tick_file') = load_tick(tick_file)
       /\ (/\ outcome \in FailedOutcomes
           /\ pc = "idle" /\ pc' = "agents"
           /\ driver' = "once" /\ ~tick_arg'.given)
          => /\ cur_tick' = load_tick(tick_file)
             /\ (driver = "forever" \/ ~tick_arg.given) => cur_tick' = cur_tick]_vars

\* C5 witness: the second iteration of run_forever failed and the persisted
\* clock names that tick.
C5_Witness ==
    /\ outcome \in FailedOutcomes
    /\ driver = "forever"
    /\ tick_file.state = "valid"
    /\ cur_tick >= 2
    /\ load_tick(tick_file) = cur_tick

\* C6: when the turn at position k of the firing order fails, what the agents
\* before k wrote, remembered and paid stays as it is, they are the only
\* agents with a result, and run_tick stops: no agent after k runs.
C6_FailureKeepsEarlierStopsLater ==
    [][(outcome = "running" /\ outcome' \in FailedOutcomes)
       => /\ \A i \in 1..(pos - 1) :
                 /\ outbox'[firing[i].name] = outbox[firing[i].name]
                 /\ memory'[firing[i].name] = memory[firing[i].name]
          /\ credits' = credits
          /\ results' = results
          /\ DOMAIN results = {firing[i].name : i \in 1..(pos - 1)}
          /\ pc' = "idle"
          /\ pos' = pos]_vars

\* C6 witness: the first agent completed its turn (an entry of this tick, a
\* memory key, its credit paid) and the second agent's turn failed.
C6_Witness ==
    /\ outcome \in FailedOutcomes
    /\ pos = 2
    /\ Len(firing) = 2
    /\ results[firing[1].name].status = "completed"
    /\ \E f \in outbox[firing[1].name] : f.entry.tick = cur_tick
    /\ memory[firing[1].name] # {}
    /\ credits[firing[1].name].credits_left = MaxCredits - 1

\* "outbox_cleanup_interval" of org_config.json, as the throttling test sets it.
outbox_cleanup_interval == 10

\* C10: run_tick calls the retention cleanup only on ticks with
\* tick mod outbox_cleanup_interval = 0 (interval 10); on every other tick
\* cleanup is not called.
C10_CleanupOnlyOnIntervalTicks ==
    cleanup_log.called => PyMod(cleanup_log.tick, outbox_cleanup_interval) = 0

-----------------------------------------------------------------------------
(* Properties of one turn (TurnSpec) *)

\* C11: under a restrictive allow-list (not None, not empty, not ["*"]) every
\* outbox entry a turn writes has all of its recipients in the list; an entry
\* naming a recipient outside the list is dropped, and the entries of the same
\* reply whose recipients are all in the list are still written, one each.
C11_RestrictiveAllowListFiltersEntries ==
    LET agent == agents[1]
        send == agent.send_outboxes
        restrictive == send.defined /\ ~send.is_none /\ send.list # <<>> /\ send.list # <<"*">>
        InList(r) == \A k \in 1..Len(r.list) : r.list[k] \in SeqToSet(send.list)
        asked == _sanitize_outbox(_ensure_list(last.reply.outbox_entries))
        expected == SelectSeq(asked, LAMBDA e : ~e.recipients.is_none /\ InList(e.recipients))
        named == {f \in outbox[agent.name] : ~f.entry.recipients.is_none}
    IN (last.op = "run_agent" /\ restrictive) =>
           /\ \A f \in outbox[agent.name] : InList(f.entry.recipients)
           /\ Cardinality(named) = Len(expected)
           /\ \A k \in 1..Len(expected) :
                  \E f \in named : f.entry.recipients = expected[k].recipients

\* A turn under the allow-list ["bravo"] whose reply asked for an entry to
\* charlie and an entry to bravo, and wrote the one to bravo.
C11_Witness ==
    /\ last.op = "run_agent"
    /\ agents[1].send_outboxes = SendList(<<"bravo">>)
    /\ last.reply.outbox_entries.items =
           <<OutboxItem(ToList(<<"charlie">>)), OutboxItem(ToList(<<"bravo">>))>>
    /\ "alpha" \in DOMAIN results
    /\ {f.entry.recipients : f \in outbox["alpha"]} = {RecipList(<<"bravo">>)}
    /\ Cardinality(outbox["alpha"]) = 1

\* C12: malformed generator output never aborts the turn: whatever list items
\* and field types the reply carries, run_agent raises nothing, returns its
\* result and deducts the credits of the turn.
C12_MalformedOutputNeverAborts ==
    [][(/\ llm_calls' = llm_calls + 1
        /\ outcome' # "llm_error"
        /\ firing[pos].send_outboxes.defined)
       => (/\ outcome' \notin FailedOutcomes
           /\ firing[pos].name \in DOMAIN results'
           /\ results'[firing[pos].name].status = "completed"
           /\ credits' = deduct_credits(credits, firing[pos].name,
                                        get_agent_credits(credits, firing[pos].name).cost_per_action))]_vars

\* C13: a turn that passes the credit check and whose generator call returns
\* deducts the agent's per-action cost exactly once, whatever the reply holds,
\* and changes no other balance; a skipped turn deducts nothing.
C13_ReturnedTurnDeductsOnce ==
    [][/\ (/\ llm_calls' = llm_calls + 1
           /\ outcome' # "llm_error"
           /\ firing[pos].send_outboxes.defined)
          => credits' = [credits EXCEPT ![firing[pos].name].credits_left =
                                            @ - credits[firing[pos].name].cost_per_action]
       /\ (pc = "agents" /\ pos' = pos + 1 /\ llm_calls' = llm_calls) => credits' = credits]_vars

\* C18: tool.execute is called only for permitted tool names, an unpermitted
\* or unregistered name yields a failed ToolResult and no execution, and the
\* turn returns exactly one ToolResult per tool call, in call order.
C18_OneToolResultPerCallPermittedOnly ==
    LET agent == agents[1]
        calls == last.reply.tool_calls.items
        Permitted(call) ==
            call.is_object /\ call.tool.kind = "str" /\ call.tool.name \in SeqToSet(agent.tools)
        Registered(call) == Permitted(call) /\ call.tool.name \in RegisteredTools
    IN (/\ last.op = "run_agent" /\ agent.send_outboxes.defined
        /\ outcome \notin {"parse_error", "memory_error"}) =>
           /\ agent.name \in DOMAIN results
           /\ Len(results[agent.name].tool_results) = Len(calls)
           /\ \A k \in 1..Len(calls) :
                  /\ results[agent.name].tool_results[k].executed => Permitted(calls[k])
                  /\ ~Registered(calls[k]) =>
                         /\ ~results[agent.name].tool_results[k].success
                         /\ ~results[agent.name].tool_results[k].executed
           /\ tool_execs = Cardinality({k \in 1..Len(calls) :
                                           results[agent.name].tool_results[k].executed})

\* C19: under a restrictive allow-list (a non-empty list other than ["*"]) an
\* entry that declares no recipients, the field absent or an empty list, is
\* not written.
C19_NoRecipientsDroppedWhenRestrictive ==
    LET send == agents[1].send_outboxes
    IN (/\ last.op = "run_agent"
        /\ send.defined /\ ~send.is_none /\ send.list # <<>> /\ send.list # <<"*">>)
       => \A f \in outbox["alpha"] :
              ~f.entry.recipients.is_none /\ f.entry.recipients.list # <<>>

\* C20: an empty allow-list is an allow-list: an agent whose send_outboxes is
\* [] writes no outbox entry, whatever recipients the reply declares.
C20_EmptyAllowListWritesNothing ==
    (last.op = "run_agent" /\ agents[1].send_outboxes = SendList(<<>>)) => outbox["alpha"] = {}

-----------------------------------------------------------------------------
(* Properties of the clock (Spec) *)

\* C15: a successful run_once that ran tick t leaves the persisted clock at
\* t+1; a run_once without an explicit tick runs the persisted tick, so the
\* run_once without a tick that follows a successful run_once of tick t runs
\* t+1: k such calls in a row run t, t+1, ..., t+k-1, each once.
C15_RunOnceAdvancesClockByOne ==
    [][/\ (driver = "once" /\ outcome = "running" /\ outcome' = "ok")
          => tick_file' = [state |-> "valid", current_tick |-> cur_tick + 1]
       /\ (/\ pc = "idle" /\ pc' = "agents"
           /\ driver' = "once" /\ ~tick_arg'.given)
          => /\ tick_file.state = "valid" => cur_tick' = tick_file.current_tick
             /\ (driver = "once" /\ outcome = "ok") => cur_tick' = cur_tick + 1
             /\ tick_file' = tick_file]_vars

\* The run_once without a tick that ran tick 2 and left the clock at 3.
C15_Witness ==
    /\ driver = "once" /\ ~tick_arg.given
    /\ pc = "idle" /\ outcome = "ok"
    /\ cur_tick = 2
    /\ tick_file = [state |-> "valid", current_tick |-> 3]

-----------------------------------------------------------------------------
(* Properties of should_run for a run_every_n_ticks below 1 (SchedSpec) *)

\* C16: an agent whose run_every_n_ticks is unset, zero or negative is
\* scheduled as if N = 1: should_run is true on every tick, for every
\* phase_offset.
C16_NonPositiveNRunsEveryTick ==
    (last.op = "should_run" /\ last.agent.run_every_n_ticks <= 0) => last.ret

-----------------------------------------------------------------------------
(* Properties of the reads within a tick (Spec) *)

\* C14: within a tick, the outbox read at the start of agent Y's turn returns
\* every entry that an agent X fired before Y wrote in that tick, when Y may
\* read X's outbox and the entry is among the 30 newest (here every outbox
\* holds fewer): the directory-listing cache does not hide it.
C14_LaterAgentReadsEarlierEntry ==
    [][(llm_calls' = llm_calls + 1) =>
           LET reader == firing[pos]
               readable == ReadableOutboxes(reader, outbox)
               incoming == read_multi_agent_outbox_entries(outbox, dir_mtime, files_cache,
                                                           readable, PromptReadLimit, SinceNone)
           IN \A i \in 1..(pos - 1) :
                  (/\ firing[i].name \in SeqToSet(readable)
                   /\ firing[i].name \in DOMAIN results
                   /\ results[firing[i].name].status = "completed")
                  => \A f \in outbox[firing[i].name] :
                         f.entry.tick = cur_tick => f.entry \in SeqToSet(incoming)]_vars

-----------------------------------------------------------------------------
(* Properties of reads of directories with other files (GarbageSpec) *)

\* C17: files of an outbox directory that are no entry files (another
\* extension, or a .json name without a numeric tick prefix) never appear in
\* what a read returns and never displace entries: read_outbox_entries with
\* limit k returns the k newest entries of the directory (all of them when
\* there are fewer), newest first, whatever other files it holds.
C17_NonEntryFilesNeverDisplace ==
    LET Valid(a) == {f.entry : f \in {g \in outbox[a] : g.json /\ g.valid}}
    IN /\ last.op = "read" =>
              LET wanted == {e \in Valid(last.agent) :
                                last.since_tick.given => e.tick >= last.since_tick.value}
                  k == Min(last.limit, Cardinality(wanted))
              IN /\ Len(last.ret) = k
                 /\ \A i \in 1..k : last.ret[i] \in wanted
                 /\ \A i, j \in 1..k : i < j => last.ret[i].tick > last.ret[j].tick
                 /\ \A e \in wanted :
                        (\A i \in 1..k : last.ret[i] # e) =>
                            \A i \in 1..k : last.ret[i].tick > e.tick
       /\ last.op = "read_multi" =>
              \A i \in 1..Len(last.ret) : last.ret[i] \in Valid(last.agent_names[1])

-----------------------------------------------------------------------------
(* Properties of _parse_llm_output (ParseSpec) *)

\* C21: _parse_llm_output never raises; for text that does not parse or whose
\* top level is no object it returns the default (three empty lists, notes
\* ""); for an object it returns the four fields, a missing or wrong-typed
\* list field as [], notes as a string, the outbox entries that are objects,
\* the memory updates that are objects with a key, and tool_calls as given,
\* whatever other fields the object has.
C21_ParseNeverRaisesAndDefaults ==
    last.op = "_parse_llm_output" =>
        LET reply == last.reply
            ret == last.ret
            Items(field) == IF field.kind = "list" THEN field.items ELSE <<>>
            objects == SelectSeq(Items(reply.outbox_entries), LAMBDA e : e.is_object)
            keyed == SelectSeq(Items(reply.memory_updates), LAMBDA u : u.is_object /\ u.has_key)
        IN /\ ~ret.raised
           /\ DOMAIN ret = {"raised", "outbox_entries", "tool_calls", "memory_updates", "notes"}
           /\ reply.form # "object" =>
                  /\ ret.outbox_entries = <<>> /\ ret.tool_calls = <<>>
                  /\ ret.memory_updates = <<>> /\ ret.notes = ""
           /\ reply.form = "object" =>
                  /\ Len(ret.outbox_entries) = Len(objects)
                  /\ \A k \in 1..Len(objects) :
                         ret.outbox_entries[k].recipients =
                             IF objects[k].to.kind \in {"str", "list"}
                             THEN RecipList(objects[k].to.list) ELSE RecipNone
                  /\ ret.tool_calls = Items(reply.tool_calls)
                  /\ Len(ret.memory_updates) = Len(keyed)
                  /\ \A k \in 1..Len(keyed) :
                         /\ ret.memory_updates[k].key = keyed[k].key
                         /\ ret.memory_updates[k].value = keyed[k].value
                         /\ ret.memory_updates[k].op = keyed[k].op
                  /\ ret.notes = (CASE reply.notes.kind = "absent" -> ""
                                    [] reply.notes.kind = "str" -> reply.notes.text
                                    [] reply.notes.text = "5" -> "5"
                                    [] reply.notes.text = "null" -> "None")


-----------------------------------------------------------------------------
(* Properties of the memory loop (MemorySpec) *)

\* The store the claimed rules give after the first i updates of a list, as a
\* function from keys to what load_memory should return.
ClaimedMemory(before, updates) ==
    LET E[i \in 0..Len(updates)] ==
            IF i = 0 THEN [k \in MemoryKeys |-> load_memory(before, k)]
            ELSE LET u == updates[i]
                 IN IF u.op.kind = "str" /\ u.op.text = "delete"
                    THEN [E[i - 1] EXCEPT ![u.key] = NoMemory]
                    ELSE IF u.op.kind = "absent" \/ (u.op.kind = "str" /\ u.op.text = "write")
                    THEN [E[i - 1] EXCEPT ![u.key] = [found |-> TRUE, value |-> u.value]]
                    ELSE E[i - 1]
    IN E[Len(updates)]

\* C22: the memory updates of a reply are applied in order: op "delete" removes
\* the key (a missing key is no error), op "write" or an absent op sets the key
\* to the given value, any other op leaves the store unchanged, and a key that
\* no update names is never changed.
C22_MemoryUpdatesAppliedByOp ==
    last.op = "memory_updates" =>
        /\ ~last.raised
        /\ \A k \in MemoryKeys :
               load_memory(memory["alpha"], k) = ClaimedMemory(last.before, last.updates)[k]

-----------------------------------------------------------------------------
(* Properties of write_outbox_entry under a concurrent reader (WriteSpec) *)

\* C23: write_outbox_entry makes an entry visible atomically: a reader that
\* runs while a write is under way finds at the entry's path either no file
\* or the complete entry, never a file with partial content.
C23_ReaderNeverSeesPartialEntry ==
    last.op = "observe" => last.seen \in {"no_file", "complete"}

-----------------------------------------------------------------------------
(* Properties of outbox_filename (FilenameSpec) *)

\* C24: for any two entries with non-negative ticks of any magnitude, the
\* order of their file names, compared as strings, is the order of their
\* (tick, id) pairs.
C24_FilenameOrderIsTickIdOrder ==
    last.op = "outbox_filename" =>
        (StrLess(last.name_e, last.name_f)
            <=> \/ last.e.tick < last.f.tick
                \/ last.e.tick = last.f.tick /\ last.e.id < last.f.id)

-----------------------------------------------------------------------------
(* Properties of the listing cache (CacheSpec) *)

\* C25: the directory-listing cache never serves stale data: after any
\* sequence of entry writes, cleanup deletions and reads in one process, the
\* list of file names a scan works from is the directory's current set of
\* entry files, sorted descending.
C25_ScanUsesCurrentListing ==
    last.op = "read_multi" => last.fresh

-----------------------------------------------------------------------------
(* Properties of repeated cleanup (CleanupSpec) *)

-----------------------------------------------------------------------------
(* Properties of OutboxEntry.to_dict / from_dict (EntrySpec) *)

-----------------------------------------------------------------------------
(* Properties of load_tick / persist_tick (ClockSpec) *)

\* C28: load_tick never raises: it returns the persisted current_tick when
\* the clock file holds a valid record, and 1 when the file is absent,
\* unreadable (a permission error, say) or unparsable; persist_tick(t) followed
\* by load_tick returns t.
C28_LoadTickNeverRaises ==
    /\ last.op = "load_tick" =>
           /\ ~last.raised
           /\ last.ret = IF last.file.state = "valid" THEN last.file.current_tick ELSE 1
    /\ last.op = "persist_tick" /\ ~last.raised =>
           ~load_tick_raises(tick_file) /\ load_tick(tick_file) = last.tick

-----------------------------------------------------------------------------
(* Properties of collect_readable_outboxes (CollectSpec) *)

\* C29: with read permission ["*"], collect_readable_outboxes reads every
\* agent directory that exists at the time of the call except the reader's own
\* and agent_template, so a directory made after an earlier call is read by
\* the next call; with an explicit list it reads the list without the reader's
\* own name; in both cases the reader gets no entry of its own outbox, and
\* from current listings it gets the entries of the directories it reads.
C29_WildcardReadsExistingDirsButOwn ==
    last.op = "collect" =>
        /\ last.read_outboxes = <<"*">> =>
               SeqToSet(last.names) = last.existing \ {last.reader, "agent_template"}
        /\ last.read_outboxes # <<"*">> =>
               SeqToSet(last.names) = SeqToSet(last.read_outboxes) \ {last.reader}
        /\ \A i \in 1..Len(last.ret) : last.ret[i].agent # last.reader
        /\ last.fresh =>
               SeqToSet(last.ret)
                   = {f.entry : f \in UNION {outbox[a] : a \in SeqToSet(last.names)}}

\* A wildcard call that returns the entry of a directory made since the call
\* before it, while the reader's own outbox and agent_template hold entries.
C29_Witness ==
    /\ last.op = "collect"
    /\ last.read_outboxes = <<"*">>
    /\ last.new_dir # ""
    /\ \E i \in 1..Len(last.ret) : last.ret[i].agent = last.new_dir
    /\ outbox[last.reader] # {}

-----------------------------------------------------------------------------
(* Properties of the order of steps within a tick (StepSpec) *)

\* C30: within a tick the turns run one at a time, in firing order, with no
\* interleaving: the steps of the turn at position i (credit check, generator
\* call, outbox writes, tool calls, memory updates, credit deduction, in that
\* order) all happen before any step of the turn at position i + 1 begins;
\* while the turn at position i runs, no agent further down the firing order
\* has written an entry, changed its memory or has a result.
C30_TurnsRunOneAtATimeInOrder ==
    last.op = "steps" =>
        /\ Len(last.trace) > 0 => last.trace[1] = [pos |-> 1, step |-> "credit_check"]
        /\ \A k \in 1..(Len(last.trace) - 1) :
               \/ /\ last.trace[k + 1].pos = last.trace[k].pos
                  /\ StepRank(last.trace[k + 1].step) = StepRank(last.trace[k].step) + 1
               \/ /\ last.trace[k + 1].pos = last.trace[k].pos + 1
                  /\ last.trace[k + 1].step = "credit_check"
                  /\ last.trace[k].step \in {"credit_check", "deduct"}
        /\ \A j \in 1..Len(firing) :
               j > pos => /\ outbox[firing[j].name] = {}
                          /\ memory[firing[j].name] = {}
                          /\ firing[j].name \notin DOMAIN results

\* Two turns have run to their end, the first having written an entry and a
\* memory key before the second began.
C30_Witness ==
    /\ last.op = "steps"
    /\ Len(firing) = 2
    /\ pos = 3
    /\ outbox[firing[1].name] # {}
    /\ memory[firing[1].name] # {}
    /\ \E k \in 1..Len(last.trace) : last.trace[k] = [pos |-> 2, step |-> "deduct"]
    /\ \E k \in 1..Len(last.trace) : last.trace[k] = [pos |-> 1, step |-> "deduct"]

\* C31: with a max_turns configured, a run_forever that was started stops; when
\* its ticks all completed, it stops after a tick that reached max_turns and
\* the tick file holds that tick plus 1.
C31_RunForeverStops ==
    (driver = "forever" /\ pc # "idle")
        ~> (pc = "idle" /\ (outcome = "ok" =>
                /\ tick_file = persist_tick(cur_tick + 1)
                /\ cur_tick >= config.max_turns.value))

\* run_forever stopped after more than one tick: the tick file it started
\* from is gone, entries of an earlier tick are in an outbox.
C31_Witness ==
    /\ driver = "forever" /\ pc = "idle" /\ outcome = "ok"
    /\ cur_tick = config.max_turns.value
    /\ tick_file = persist_tick(cur_tick + 1)
    /\ \E a \in Dirs : \E f \in outbox[a] : f.entry.tick < cur_tick

\* C32: with a max_turns configured, run_forever runs no tick above max_turns.
C32_NoTickAboveMaxTurns ==
    driver = "forever" /\ pc = "agents" /\ config.max_turns.given
        => cur_tick <= config.max_turns.value

\* C33: the files a turn adds to the outbox directories are entries in the
\* turn's own agent's outbox, with that agent and the turn's tick; every entry
\* that was in an outbox when the turn began is still there, unchanged.
C33_TurnWritesOnlyOwnNewEntries ==
    last.op = "run_agent" /\ "before" \in DOMAIN last =>
        /\ \A b \in Dirs : \A f \in last.before[b] : f \in outbox[b]
        /\ \A b \in Dirs : \A f \in outbox[b] \ last.before[b] :
               /\ b = last.agent
               /\ f.valid
               /\ f.entry.agent = last.agent
               /\ f.entry.tick = last.tick

\* C34: for every key, the requests accepted at times within any interval
\* shorter than the window are at most limit, whatever requests other clients
\* made; a request over the limit gets 429 and adds no timestamp.
C34_AtMostLimitPerWindow ==
    last.op = "request" =>
        /\ \A c \in RateClients, sc \in RateScopes : \A t \in 1..MaxRateTime :
               Cardinality({i \in 1..Len(last.accepted) :
                               /\ last.accepted[i].key = RateKey(c, sc)
                               /\ last.accepted[i].time >= t
                               /\ last.accepted[i].time - t < MaxRateWindow}) <= MaxRateLimit
        /\ last.status = 429 =>
               Len(RateFilter(last.table[RateIndex(last.table, last.key)].stamps, now,
                              MaxRateWindow)) <= last.before

\* C35: get_credits(base) returns the content of base's credits.json and
\* get_org_config(base) the content of base's org_config.json, whatever base
\* path the calls before were made for.
C35_CachesFollowBasePath ==
    /\ last.op = "get_credits" => last.ret = last.files[last.base].credits
    /\ last.op = "get_org_config" => last.ret = last.files[last.base].label

\* C36: when a call takes the breaker from CLOSED to OPEN, the last
\* failure_threshold calls that reached the function all failed.
C36_OpensAfterConsecutiveFailures ==
    last.op = "call" /\ last.before.state = "CLOSED" /\ last.cb.state = "OPEN" =>
        /\ Len(last.recent) = MaxThreshold
        /\ \A i \in 1..Len(last.recent) : last.recent[i] = "error"

\* C37: a call on an OPEN breaker before recovery_timeout has passed since the
\* last failure raises without invoking the function and leaves the breaker as
\* it is; a call at or after the timeout invokes the function once, and the
\* breaker is then CLOSED with failure_count 0 when the function returned and
\* OPEN when it raised an Exception.
C37_OpenRejectsThenTrial ==
    last.op = "call" /\ last.before.state = "OPEN" =>
        IF last.at - last.before.last_failure_time.time < MaxRecovery
        THEN last.invoked = 0 /\ last.raised = "open" /\ last.cb = last.before
        ELSE /\ last.invoked = 1
             /\ last.outcome = "ok" =>
                    last.cb.state = "CLOSED" /\ last.cb.failure_count = 0 /\ last.raised = "none"
             /\ last.outcome = "error" => last.cb.state = "OPEN" /\ last.raised = "error"

\* An OPEN breaker rejected a call, and a later trial call closed it.
C37_Witness ==
    /\ last.op = "call" /\ last.before.state = "OPEN"
    /\ last.invoked = 1 /\ last.outcome = "ok" /\ last.cb.state = "CLOSED"
    /\ last.cb.failure_count = 0 /\ last.before.failure_count >= MaxThreshold
    /\ last.calls > MaxThreshold + 1

\* C38: _strip_fences returns the lines between the first line that starts
\* with ``` and the next such line (or the end of the text), joined by
\* newlines, the empty string when there are none; a text with no such line is
\* returned unchanged.
C38_StripFencesFirstBlock ==
    last.op = "_strip_fences" =>
        LET raw == last.raw
            fences == {k \in 1..Len(raw) : StartsWithFence(raw[k])}
            Least(S) == CHOOSE k \in S : \A j \in S : k <= j
            first == Least(fences)
            later == {k \in fences : k > first}
            close == IF later = {} THEN Len(raw) + 1 ELSE Least(later)
        IN IF fences = {} THEN last.ret = raw
           ELSE last.ret = JoinLines(SubSeq(raw, first + 1, close - 1))

-----------------------------------------------------------------------------
(* Agreement and periodicity of the scheduling functions (SchedSpec) *)

C40_FiringPeriodicWithPeriodN ==
    (last.op = "should_run" /\ last.agent.run_every_n_ticks >= 1) =>
        LET n == last.agent.run_every_n_ticks
        IN /\ Cardinality({u \in last.tick..(last.tick + n - 1) :
                               should_run(last.agent, u)}) = 1
           /\ last.ret <=> should_run(last.agent, last.tick + n)
           /\ last.ret = should_run(last.agent, last.tick)

\* C40 witness: should_run returned False at a tick for an agent with N >= 2
\* and a negative phase_offset that fires at a later tick of the window.
C40_Witness ==
    /\ last.op = "should_run"
    /\ ~last.ret
    /\ last.agent.run_every_n_ticks >= 2
    /\ last.agent.phase_offset < 0
    /\ \E u \in (last.tick + 1)..(last.tick + last.agent.run_every_n_ticks - 1) :
           should_run(last.agent, u)

====
